---- MODULE Spec2Model ----
(***************************************************************************)
(* A model of the LLAMA collector's probe pipeline (dropbox/llama):        *)
(*   Port (send / recv / eviction callback) over the probe cache,          *)
(*   ResultHandler, PortGroup mux, and the Summarizer with its read cache. *)
(* Each subsystem has its own next-state relation over the shared state.   *)
(***************************************************************************)
EXTENDS Integers, Sequences, FiniteSets, TLC

(***************************************************************************)
(* Bounds of the model                                                     *)
(***************************************************************************)
MaxProbes == 2      \* probes one Port sends in a run
MaxEchoes == 2      \* datagrams the Port's socket hands to recv in a run
SendWindow == 1     \* clock ticks during which the Port still takes targets
TTLTicks == 2       \* cTimeout, in clock ticks
CbcCap == 1         \* buffer of the callback channel
ResultsCap == 1     \* buffer of the results channel
TosendCap == 1      \* buffer of a Port's input channel

NumPorts == 2       \* Ports of the PortGroup
MaxTaken == 2       \* addresses the PortGroup takes from tosend in a run
MaxResults == 3     \* Results fed to the Summarizer in a run
MaxTicks == 2       \* ticks of the Summarizer's ticker in a run
NumReaders == 1     \* concurrent InfluxHandler requests
MaxStamp == 7       \* largest send / receive timestamp handed to Process
NumHandlers == 2    \* ResultHandlers draining one callback channel
MaxFed == 3         \* probes put on that callback channel in a run
Burst == 1          \* burst of the TestRunner's rate limiter
MaxRefills == 2     \* tokens the limiter adds to its bucket in a run
MaxTargets == 2     \* longest target list of the TestRunner
MaxMuts == 2        \* calls of Add, Del and Set in a run
MaxBucket == 4      \* most Results of one bucket given to the Calc functions
MaxGroup == 3       \* most Results added to the results map
MaxTests == 2       \* most tests of a collector configuration
MaxMade == 5         \* most TestRunners constructed in a run
NumRequests == 2    \* concurrent InfluxHandler requests on the two locks
MaxPublish == 2     \* caches published by summarize in a run
MaxMerges == 2      \* calls of MergeUpdateTagSet in a run
CpsDenom == 4       \* cps values are multiples of 1/4
MaxCpsNum == 14     \* largest cps, 14/4
MaxRlCycles == 3    \* cycles of run under one limiter
MaxReloads == 2     \* calls of Collector.Reload in a run
Interval == 2       \* s.interval, in units of the clock
MaxLifeTime == 7    \* last time the Summarizer's clock shows
MaxStops == 2       \* calls of Summarizer.Stop in a run
MaxStored == 2      \* Results stored in a run of the Summarizer
MaxDatagrams == 3   \* datagrams the reflector receives in a run
MantBits == 3       \* bits of the mantissa of a modelled float64

\* Summarizer.Run starts two store tasks
NumStores == 2

\* time.Nanosecond, the smallest positive duration
ExpireNow == 1

\* the clock runs from 1 to MaxTime: every entry inserted within the send
\* window can expire before the clock stops, however often it is replaced
MaxTime == SendWindow + TTLTicks + MaxEchoes * ExpireNow + 1

\* the target addresses queued for the Port
PortTargets == {1}
Sigs == 1..MaxProbes
\* the (empty) signature of a datagram that is none of this Port's probes
NoSig == 0

VARIABLES
    now,        \* wall clock (NowUint64 / time.Now)
    stop,       \* Port.stop: TRUE once the channel is closed
    tosend,     \* Port.tosend: queued target addresses
    nextId,     \* the next fresh NewID()
    probes,     \* the Probe objects the cache and the channels point to
    items,      \* cache: signature -> expiration of the entry
    onEvicted,  \* cache: the installed eviction callback
    sendPc, sendKey,             \* Port.send: position and locals
    wire,       \* signatures transmitted on the socket
    echoes,     \* datagrams read so far
    recvPc, recvId,              \* Port.recv: position and locals
    janPc, evictedItems, janView, doneKey, \* the cache's cleaner
    cbc,        \* callback channel: probes handed over by Port.done
    rhPc, rhProbe, rhResult,    \* ResultHandler.run
    results,    \* results channel
    everInserted, \* history: signatures that ever had a cache entry
    matched,    \* history: signatures Port.recv found in the cache
    delivered,  \* history: per signature, CRcvd at each delivery to cbc
    swapped,    \* history: Port.recv has installed the no-op callback
    emitted,    \* history: per signature, the Results put on results
    \* PortGroup
    pgPc, muxAddr, muxLeft,      \* PortGroup.run / mux: position and locals
    muxCur,     \* mux: the Port the range loop is at (NoPort outside mux)
    pgPorts,    \* PortGroup.ports: the Ports of the group
    chans,      \* the input channel of each Port of the group
    sending,    \* the Ports whose send loop is still running
    taken,      \* history: the addresses run took from tosend
    placed,     \* history: per Port, the addresses mux put on its channel
    \* Summarizer and the API's reader
    sumIn,      \* Summarizer.in: the results channel
    nextRes,    \* identity of the next Result fed to the channel
    sResults,   \* Summarizer.results: key -> list of Results
    sMutex,     \* Summarizer.mutex: its holder
    sCache,     \* Summarizer.Cache: the published summaries
    cReaders, cWriter, cPending, \* Summarizer.CMutex
    stPc, stRes,                 \* the store tasks: position and local
    tkPc, tkResults, newCache, ticks, \* the tick task: position and locals
    rdPc, rdView,                \* InfluxHandler: position and local
    storedAt,   \* history: per Result, the summarize steps begun when stored
    published,  \* history: every slice published as Summarizer.Cache
    cacheSource, \* history: the bucket map the published Cache was built from
    \* a call of Process
    pCalled, pIn, pOut, pErr,    \* called, the Probe, the Result, error logged
    \* several ResultHandlers on one callback channel
    hCbc,       \* the callback channel (rh.in of every handler)
    hOut,       \* the results channel (rh.out of every handler)
    hNext,      \* identity of the next probe put on the callback channel
    hPc, hResult,                \* ResultHandler.run: position and local
    hStop,      \* per handler: its stop channel is closed
    hTook,      \* history: per probe, the handlers that took it
    hRecvd,     \* history: the Results received from the results channel
    \* TestRunner
    trPc, trIdx,                 \* TestRunner.run / cycleTargets: position, index
    trTargets,  \* TestRunner.targets
    trStop,     \* TestRunner.stop is closed
    trRLocked, trWLocked, trWPending, \* TestRunner.mutex
    rlTokens,   \* tokens in the limiter's bucket
    refills,    \* tokens the limiter has added to its bucket
    mutPc, mutOp, muts,          \* a caller of Add / Del / Set, calls made
    tpgPc,      \* PortGroup.run at the other end of TestRunner.tosend
    cycles,     \* history: cycles begun
    cycleList,  \* history: the target list when the current cycle began
    cycleSent,  \* history: the addresses the current cycle has sent
    completed,  \* history: per completed cycle, its list and what it sent
    stopAtCycle, \* history: the cycles begun when Stop was called
    \* shutdown of the Summarizer
    sStop,      \* Summarizer.stop is closed
    tickerOn,   \* Summarizer.ticker is running
    tickC,      \* a tick is waiting in the channel ticker.C
    stopTicks,  \* history: the summarize steps begun when Stop was called
    \* a call of CalcCounts and CalcLoss
    cCalled, cResults, cSummary, \* called, the bucket, the Summary
    \* a call of CalcRTT
    rCalled, rResults, rSummary, \* called, the bucket, the Summary
    \* addResult and summarize applied one after the other
    gResults,     \* s.results
    gTaken,       \* the map the last summarize step extracted
    gCache,       \* s.Cache
    gNext,        \* id of the next Result to add
    gSteps,       \* number of summarize steps
    \* the TagSet of the API
    tA,           \* api.ts
    tPrev,        \* api.ts before the last merge
    tB,           \* the TagSet merged last
    tTargets,     \* the TargetSet merged last
    tOp,          \* the operation applied last
    \* the Collector
    kPhase,       \* position of main: "new", "setup", "running", "exited"
    kCfg,         \* c.cfg
    kTs,          \* c.ts
    kCbc,         \* c.cbc: the channel's identity, 0 for nil
    kChans,       \* number of callback channels made
    kRunners,     \* c.runners: the runners' identities
    kAll,         \* every TestRunner made: its callback channel and state
    kS,           \* c.s: the Summarizer's identity and state
    kRh,          \* c.rh: the ResultHandlers
    kApi,         \* c.api: the API's identity, state and TagSet
    kLog,         \* what the last call did to runners, in order
    kReloads,     \* number of calls of Reload
    \* the Summarizer from NewSummarizer on
    lNow,         \* the clock
    lStart,       \* time at which Run started the tasks, -1 before
    lPc,          \* position of waitToSummarize
    lWake,        \* end of the initial Sleep
    lTicker,      \* s.ticker: "nil", "on" or "stopped"
    lNextTick,    \* time of the ticker's next tick
    lTickC,       \* s.ticker.C holds a tick
    lStop,        \* s.stop is closed
    lCloses,      \* number of close(s.stop) executed
    lStopCalls,   \* number of calls of Stop
    lPanic,       \* a call has ended in a run-time panic
    lResults,     \* s.results
    lNextId,      \* id of the next Result
    lCache,       \* s.Cache
    lFirstAt,     \* time of the first summarize step, -1 before
    lFirstCache,  \* the Cache the first summarize step published
    lBefore,      \* ids of the Results stored before the first summarize step
    \* the reflector
    fPc,          \* position of Reflect
    fTos,         \* Reflect's local tos
    fSockTos,     \* IP_TOS of the socket
    fData,        \* the datagram received last
    fAddr,        \* its sender
    fRecvd,       \* every datagram received, with its sender
    fSent,        \* every datagram sent, with its destination and its ToS
    \* Port.recv given datagrams that may not decode
    dNow,         \* the clock
    dItems,       \* the Port's cache
    dNext,        \* signature of the next probe sent
    dLast,        \* the datagram read last, the cache before and after it
    dStamped,     \* the probes stamped as received, and by what datagram
    dDelivered,   \* the probes handed to cbc
    \* the stop channels under the public Stop and Reload calls
    xRunners,     \* Collector.runners: the TestRunners of the collector
    xMade,        \* number of TestRunners constructed so far
    xPg,          \* the TestRunners whose pg field is not nil
    xClosed,      \* the stop channels that have been closed
    xPanic,       \* a call closed a channel that was closed already
    \* Port.done, the eviction callback, sending on the callback channel
    ePc,          \* position of the eviction callback
    \* InfluxHandler, summarize and MergeUpdateTagSet on CMutex and API.mutex
    yPc,          \* position of each InfluxHandler request
    ySnap,        \* summaries: the slice header each request read from Cache
    yGot,         \* the TagSet entries each request looked up
    yCache,       \* Summarizer.Cache, a slice header: pointer and length
    yTs,          \* API.ts: the entry of each key
    yCR,          \* the requests holding CMutex.RLock
    yCW,          \* summarize holds CMutex.Lock
    yCPend,       \* summarize waits in CMutex.Lock
    yTR,          \* the requests holding API.mutex.RLock
    yTW,          \* MergeUpdateTagSet holds API.mutex.Lock
    yTPend,       \* MergeUpdateTagSet waits in API.mutex.Lock
    ySumPc,       \* position of summarize
    yPublished,   \* number of the cache summarize has built last
    yMergePc,     \* position of MergeUpdateTagSet
    yMerged,      \* number of the TagSet merged last
    yMergeLeft,   \* keys the range of MergeUpdateTagSet has still to copy
    \* the limiter createRateLimiter builds from cps, and TestRunner.run waiting on it
    zPc,          \* position: configuration, then the loop of run
    zCps,         \* the configured cps, in units of 1/CpsDenom
    zBurst,       \* burst of the limiter
    zTokens,      \* tokens in the bucket
    zCycles       \* cycles begun

portVars == <<now, stop, tosend, nextId, probes, items, onEvicted,
              sendPc, sendKey, wire, echoes, recvPc, recvId,
              janPc, evictedItems, janView, doneKey, cbc,
              rhPc, rhProbe, rhResult, results,
              everInserted, matched, delivered, swapped, emitted>>

muxVars == <<pgPc, muxAddr, muxLeft, muxCur, pgPorts, chans, sending, taken,
             placed>>

sumVars == <<sumIn, nextRes, sResults, sMutex, sCache, cReaders, cWriter,
             cPending, stPc, stRes, tkPc, tkResults, newCache, ticks,
             rdPc, rdView, storedAt, published, cacheSource>>

procVars == <<pCalled, pIn, pOut, pErr>>

\* the state of the subsystems other than the Port, the PortGroup's mux and
\* the Summarizer
handlerVars == <<hCbc, hOut, hNext, hPc, hResult, hStop, hTook, hRecvd>>

runnerVars == <<trPc, trIdx, trTargets, trStop, trRLocked, trWLocked,
                trWPending, rlTokens, refills, mutPc, mutOp, muts, tpgPc,
                cycles, cycleList, cycleSent, completed, stopAtCycle>>

sumStopVars == <<sStop, tickerOn, tickC, stopTicks>>

calcVars == <<cCalled, cResults, cSummary>>

priorVars == <<procVars, handlerVars, runnerVars, sumStopVars, calcVars>>

rttVars == <<rCalled, rResults, rSummary>>

groupVars == <<gResults, gTaken, gCache, gNext, gSteps>>
tagVars == <<tA, tPrev, tB, tTargets, tOp>>
collVars == <<kPhase, kCfg, kTs, kCbc, kChans, kRunners, kAll, kS, kRh, kApi,
              kLog, kReloads>>
lifeVars == <<lNow, lStart, lPc, lWake, lTicker, lNextTick, lTickC, lStop,
              lCloses, lStopCalls, lPanic, lResults, lNextId, lCache,
              lFirstAt, lFirstCache, lBefore>>
reflVars == <<fPc, fTos, fSockTos, fData, fAddr, fRecvd, fSent>>
decVars == <<dNow, dItems, dNext, dLast, dStamped, dDelivered>>
clsVars == <<xRunners, xMade, xPg, xClosed, xPanic>>
evVars == <<ePc>>
lkVars == <<yPc, ySnap, yGot, yCache, yTs, yCR, yCW, yCPend, yTR, yTW, yTPend, ySumPc, yPublished, yMergePc, yMerged, yMergeLeft>>
rlVars == <<zPc, zCps, zBurst, zTokens, zCycles>>
lastVars == <<decVars, clsVars, evVars, lkVars, rlVars>>
moreVars == <<rttVars, groupVars, tagVars, collVars, lifeVars, reflVars, lastVars>>

exceptRtt ==
    <<portVars, muxVars, sumVars, priorVars, groupVars, tagVars, collVars, lifeVars,
      reflVars, lastVars>>
exceptGroup ==
    <<portVars, muxVars, sumVars, priorVars, rttVars, tagVars, collVars, lifeVars,
      reflVars, lastVars>>
exceptTags ==
    <<portVars, muxVars, sumVars, priorVars, rttVars, groupVars, collVars, lifeVars,
      reflVars, lastVars>>
exceptColl ==
    <<portVars, muxVars, sumVars, priorVars, rttVars, groupVars, tagVars, lifeVars,
      reflVars, lastVars>>
exceptLife ==
    <<portVars, muxVars, sumVars, priorVars, rttVars, groupVars, tagVars, collVars,
      reflVars, lastVars>>
exceptRefl ==
    <<portVars, muxVars, sumVars, priorVars, rttVars, groupVars, tagVars, collVars,
      lifeVars, lastVars>>
exceptDec ==
    <<portVars, muxVars, sumVars, priorVars, rttVars, groupVars, tagVars, collVars, lifeVars, reflVars,
      clsVars,
      evVars,
      lkVars,
      rlVars>>
exceptCls ==
    <<portVars, muxVars, sumVars, priorVars, rttVars, groupVars, tagVars, collVars, lifeVars, reflVars,
      decVars,
      evVars,
      lkVars,
      rlVars>>
exceptEv ==
    <<portVars, muxVars, sumVars, priorVars, rttVars, groupVars, tagVars, collVars, lifeVars, reflVars,
      decVars,
      clsVars,
      lkVars,
      rlVars>>
exceptLk ==
    <<portVars, muxVars, sumVars, priorVars, rttVars, groupVars, tagVars, collVars, lifeVars, reflVars,
      decVars,
      clsVars,
      evVars,
      rlVars>>
exceptRl ==
    <<portVars, muxVars, sumVars, priorVars, rttVars, groupVars, tagVars, collVars, lifeVars, reflVars,
      decVars,
      clsVars,
      evVars,
      lkVars>>

restVars == <<procVars, handlerVars, runnerVars, sumStopVars, calcVars, moreVars>>

vars == <<portVars, muxVars, sumVars, restVars>>

(***************************************************************************)
(* The probe cache (patrickmn/go-cache as used by Port)                    *)
(***************************************************************************)
\* an entry is expired once the clock has passed its expiration
Expired(its, k, t) == t > its[k]

\* Get: a hit only for a present, unexpired entry
CacheGet(its, k, t) == k \in DOMAIN its /\ ~Expired(its, k, t)

\* Set with the default expiration
CacheSetDefault(its, k, t) ==
    [x \in DOMAIN its \cup {k} |-> IF x = k THEN t + TTLTicks ELSE its[x]]

\* Set with an explicit duration
CacheSet(its, k, t, d) ==
    [x \in DOMAIN its \cup {k} |-> IF x = k THEN t + d ELSE its[x]]

\* Replace: sets only when Get would hit, otherwise an error and no change
CacheReplace(its, k, t, d) ==
    IF CacheGet(its, k, t) THEN CacheSet(its, k, t, d) ELSE its

\* DeleteExpired, locked part: the expired keys, removed in one sweep
ExpiredKeys(its, t) == {k \in DOMAIN its : Expired(its, k, t)}

(***************************************************************************)
(* ResultHandler: Process and RTT                                          *)
(***************************************************************************)
\* an RTT that subtracts without comparing the two stamps; the unsigned
\* difference wraps, here at the width of the modelled stamps
RTTUnordered(probe) ==
    IF probe.CRcvd = 0 THEN [RTT |-> 0, Lost |-> TRUE, err |-> FALSE]
    ELSE [RTT |-> (probe.CRcvd - probe.CSent) % (MaxStamp + 1),
          Lost |-> FALSE, err |-> FALSE]

RTT(probe) ==
    IF probe.CRcvd = 0 THEN [RTT |-> 0, Lost |-> TRUE, err |-> FALSE]
    ELSE IF probe.CSent > probe.CRcvd
         THEN [RTT |-> 0, Lost |-> TRUE, err |-> TRUE]
         ELSE [RTT |-> probe.CRcvd - probe.CSent, Lost |-> FALSE, err |-> FALSE]

Process(probe) ==
    [Pd |-> probe.Pd, Done |-> probe.CRcvd,
     RTT |-> RTT(probe).RTT, Lost |-> RTT(probe).Lost]

NoResult == [Pd |-> 0, Done |-> 0, RTT |-> 0, Lost |-> FALSE]

(***************************************************************************)
(* Initial state: NewPort, NewResultHandler                                *)
(***************************************************************************)
InitPort ==
    /\ now = 1
    /\ stop = FALSE
    /\ tosend = <<>>
    /\ nextId = 1
    /\ probes = <<>>
    /\ items = <<>>
    /\ onEvicted = "done"
    /\ sendPc = "select" /\ sendKey = NoSig
    /\ wire = {}
    /\ echoes = 0
    /\ recvPc = "select" /\ recvId = NoSig
    /\ janPc = "idle" /\ evictedItems = {} /\ janView = "done" /\ doneKey = NoSig
    /\ cbc = <<>>
    /\ rhPc = "in" /\ rhProbe = NoSig /\ rhResult = NoResult
    /\ results = <<>>
    /\ everInserted = {}
    /\ matched = {}
    /\ delivered = [k \in Sigs |-> <<>>]
    /\ swapped = FALSE
    /\ emitted = [k \in Sigs |-> <<>>]

Ports == 1..NumPorts
NoPort == 0
Addrs == {1, 2}     \* target addresses offered on tosend

\* NewPortGroup, AddNew for each Port, PortGroup.Run
InitMux ==
    /\ pgPc = "select" /\ muxAddr = 0 /\ muxLeft = {} /\ muxCur = NoPort
    /\ pgPorts = Ports
    /\ chans = [p \in Ports |-> <<>>]
    /\ sending = Ports
    /\ taken = <<>>
    /\ placed = [p \in Ports |-> <<>>]

Stores == 1..NumStores
Readers == 1..NumReaders
ResIds == 1..MaxResults
\* a net.IP: an address in its 4-byte or its 16-byte form
IPv4(a) == [addr |-> a, len |-> 4]
NoIP == [addr |-> 0, len |-> 0]
PathDists == {[SrcIP |-> IPv4(1), DstIP |-> IPv4(d)] : d \in {1, 2}}
EmptyMap == <<>>
NoRes == [id |-> 0, Pd |-> [SrcIP |-> NoIP, DstIP |-> NoIP], Lost |-> FALSE]

\* NewSummarizer, Summarizer.Run
InitSum ==
    /\ sumIn = <<>>
    /\ nextRes = 1
    /\ sResults = EmptyMap
    /\ sMutex = 0
    /\ sCache = <<>>
    /\ cReaders = {} /\ cWriter = FALSE /\ cPending = FALSE
    /\ stPc = [t \in Stores |-> "recv"]
    /\ stRes = [t \in Stores |-> NoRes]
    /\ tkPc = "wait" /\ tkResults = EmptyMap /\ newCache = <<>> /\ ticks = 0
    /\ rdPc = [r \in Readers |-> "idle"]
    /\ rdView = [r \in Readers |-> <<>>]
    /\ storedAt = <<>>
    /\ published = <<>>
    /\ cacheSource = EmptyMap

NoProbe == [Pd |-> 0, CSent |-> 0, CRcvd |-> 0]
Stamps == 0..MaxStamp
ProbePds == {1, 2}

\* no call of Process made yet
InitProc ==
    /\ pCalled = FALSE
    /\ pIn = NoProbe
    /\ pOut = NoResult
    /\ pErr = FALSE

Handlers == 1..NumHandlers
NoHandled == [id |-> 0, res |-> NoResult]

\* NewResultHandler for every handler, ResultHandler.Run
InitHandlers ==
    /\ hCbc = <<>>
    /\ hOut = <<>>
    /\ hNext = 1
    /\ hPc = [h \in Handlers |-> "in"]
    /\ hResult = [h \in Handlers |-> NoHandled]
    /\ hStop = [h \in Handlers |-> FALSE]
    /\ hTook = <<>>
    /\ hRecvd = <<>>

NoOp == [op |-> "none", addr |-> 0, list |-> <<>>]

\* NewTestRunner, NewLimiter (the bucket starts full), TestRunner.Run
InitRunner ==
    /\ trPc = "check1"
    /\ trIdx = 1
    /\ trTargets = <<>>
    /\ trStop = FALSE
    /\ trRLocked = FALSE /\ trWLocked = FALSE /\ trWPending = FALSE
    /\ rlTokens = Burst
    /\ refills = 0
    /\ mutPc = "idle" /\ mutOp = NoOp /\ muts = 0
    /\ tpgPc = "select"
    /\ cycles = 0
    /\ cycleList = <<>>
    /\ cycleSent = <<>>
    /\ completed = <<>>
    /\ stopAtCycle = 0

\* Summarizer.Run, once waitToSummarize has started the ticker
InitSumStop ==
    /\ sStop = FALSE
    /\ tickerOn = TRUE
    /\ tickC = FALSE
    /\ stopTicks = 0

\* float64 values: a ratio of integers, or the result of a division by zero
FloatZero == [kind |-> "num", num |-> 0, den |-> 1]
FloatNaN == [kind |-> "nan", num |-> 0, den |-> 0]
FloatInf == [kind |-> "inf", num |-> 0, den |-> 0]

\* &Summary{}
NoSummary == [Sent |-> 0, Lost |-> 0, Loss |-> FloatZero]

\* no call of the Calc functions made yet
InitCalc ==
    /\ cCalled = FALSE
    /\ cResults = <<>>
    /\ cSummary = NoSummary

\* a float64 is m * 2^e with a mantissa m of MantBits bits
FZero == [m |-> 0, e |-> 0]

\* &Summary{}: the RTT fields
NoRttSummary == [RTTAvg |-> FZero, RTTMin |-> FZero, RTTMax |-> FZero]

\* no call of CalcRTT made yet
InitRtt ==
    /\ rCalled = FALSE
    /\ rResults = <<>>
    /\ rSummary = NoRttSummary

\* NewSummarizer: results: make(map[string][]*Result), no Cache
InitGroup ==
    /\ gResults = EmptyMap
    /\ gTaken = EmptyMap
    /\ gCache = <<>>
    /\ gNext = 1
    /\ gSteps = 0

\* make(TagSet)
EmptyTagSet == [k \in {} |-> [n \in {} |-> ""]]

\* TargetsConfig.TagSet: ts := make(TagSet)
InitTags ==
    /\ tA = EmptyTagSet
    /\ tPrev = EmptyTagSet
    /\ tB = EmptyTagSet
    /\ tTargets = <<>>
    /\ tOp = "none"

NoCfg == [Tests |-> 0, Targets |-> <<>>, Resolves |-> TRUE]
NoComponent == [id |-> 0, state |-> "none"]

\* collector := llama.Collector{}
InitColl ==
    /\ kPhase = "new"
    /\ kCfg = NoCfg
    /\ kTs = EmptyTagSet
    /\ kCbc = 0
    /\ kChans = 0
    /\ kRunners = <<>>
    /\ kAll = <<>>
    /\ kS = NoComponent
    /\ kRh = <<>>
    /\ kApi = [id |-> 0, state |-> "none", ts |-> EmptyTagSet]
    /\ kLog = <<>>
    /\ kReloads = 0

\* NewSummarizer
InitLife ==
    /\ lNow = 0
    /\ lStart = -1
    /\ lPc = "idle"
    /\ lWake = 0
    /\ lTicker = "nil"
    /\ lNextTick = 0
    /\ lTickC = FALSE
    /\ lStop = FALSE
    /\ lCloses = 0
    /\ lStopCalls = 0
    /\ lPanic = FALSE
    /\ lResults = EmptyMap
    /\ lNextId = 1
    /\ lCache = <<>>
    /\ lFirstAt = -1
    /\ lFirstCache = <<>>
    /\ lBefore = {}

NoDatagram == [ok |-> FALSE, sig |-> 0, Tos |-> <<>>]

\* Reflect on a socket fresh from ListenUDP: tos := byte(0)
InitRefl ==
    /\ fPc = "reserve"
    /\ fTos = 0
    /\ fSockTos = 0
    /\ fData = NoDatagram
    /\ fAddr = 0
    /\ fRecvd = <<>>
    /\ fSent = <<>>

\* no datagram read yet
NoRead == [d |-> [ok |-> TRUE, sig |-> 0], before |-> <<>>, after |-> <<>>]

\* NewPort
InitDec ==
    /\ dNow = 1
    /\ dItems = <<>>
    /\ dNext = 1
    /\ dLast = NoRead
    /\ dStamped = {}
    /\ dDelivered = {}

\* Collector.Setup with a configuration of two tests, and Collector.Run
InitCls ==
    /\ xRunners = <<1, 2>>
    /\ xMade = 2
    /\ xPg = {1, 2}
    /\ xClosed = {}
    /\ xPanic = FALSE

\* no eviction is under way
InitEv == ePc = "idle"

Requests == 1..NumRequests
TagKeys == {1, 2}

\* no header read, no entry looked up
NoSnap == [ptr |-> 0, len |-> 0]
NoTags == [k \in TagKeys |-> 0]

\* NewSummarizer and the API set up with the first TagSet; nothing published
InitLk ==
    /\ yPc = [r \in Requests |-> "idle"]
    /\ ySnap = [r \in Requests |-> NoSnap]
    /\ yGot = [r \in Requests |-> NoTags]
    /\ yCache = NoSnap
    /\ yTs = NoTags
    /\ yCR = {} /\ yCW = FALSE /\ yCPend = FALSE
    /\ yTR = {} /\ yTW = FALSE /\ yTPend = FALSE
    /\ ySumPc = "idle" /\ yPublished = 0
    /\ yMergePc = "idle" /\ yMerged = 0 /\ yMergeLeft = {}

\* the configuration is not read yet
InitRl ==
    /\ zPc = "config"
    /\ zCps = 0
    /\ zBurst = 0
    /\ zTokens = 0
    /\ zCycles = 0

Init ==
    /\ InitPort /\ InitMux /\ InitSum /\ InitProc /\ InitHandlers /\ InitRunner
    /\ InitSumStop /\ InitCalc /\ InitRtt /\ InitGroup
    /\ InitTags /\ InitColl /\ InitLife /\ InitRefl
    /\ InitDec
    /\ InitCls
    /\ InitEv
    /\ InitLk
    /\ InitRl

(***************************************************************************)
(* Environment of a Port: the clock, the stop broadcast, the mux feeding   *)
(* the Port's input channel                                                *)
(***************************************************************************)
Tick ==
    /\ now < MaxTime
    /\ now' = now + 1
    /\ UNCHANGED <<stop, tosend, nextId, probes, items, onEvicted,
                   sendPc, sendKey, wire, echoes, recvPc, recvId,
                   janPc, evictedItems, janView, doneKey, cbc,
                   rhPc, rhProbe, rhResult, results,
                   everInserted, matched, delivered, swapped, emitted>>
    /\ UNCHANGED <<muxVars, sumVars, restVars>>

\* close(stop): TestRunner.Stop / PortGroup.Stop
StopCall ==
    /\ ~stop
    /\ stop' = TRUE
    /\ UNCHANGED <<now, tosend, nextId, probes, items, onEvicted,
                   sendPc, sendKey, wire, echoes, recvPc, recvId,
                   janPc, evictedItems, janView, doneKey, cbc,
                   rhPc, rhProbe, rhResult, results,
                   everInserted, matched, delivered, swapped, emitted>>
    /\ UNCHANGED <<muxVars, sumVars, restVars>>

\* an address arrives on the Port's input channel
PortFeed ==
    /\ Len(tosend) < TosendCap
    /\ \E addr \in PortTargets : tosend' = Append(tosend, addr)
    /\ UNCHANGED <<now, stop, nextId, probes, items, onEvicted,
                   sendPc, sendKey, wire, echoes, recvPc, recvId,
                   janPc, evictedItems, janView, doneKey, cbc,
                   rhPc, rhProbe, rhResult, results,
                   everInserted, matched, delivered, swapped, emitted>>
    /\ UNCHANGED <<muxVars, sumVars, restVars>>

(***************************************************************************)
(* Port.send                                                               *)
(***************************************************************************)
\* send inserting the entry with an expiration the clock never reaches
SendCacheInsertNoExpiry(its, k, t) == CacheSet(its, k, t, MaxTime)

\* send with the insertion left out of the path before the transmission
SendCacheInsertDeferred(its, k, t) == its

\* the cache insertion of send: p.cache.SetDefault(key, &probe)
SendCacheInsert(its, k, t) == CacheSetDefault(its, k, t)

\* case addr := <-p.tosend, up to and including the cache insertion
SendTake ==
    /\ sendPc = "select"
    /\ tosend # <<>>
    /\ nextId <= MaxProbes
    /\ now <= SendWindow
    /\ probes' = [k \in DOMAIN probes \cup {nextId} |->
                    IF k = nextId
                    THEN [Pd |-> Head(tosend), CSent |-> now, CRcvd |-> 0]
                    ELSE probes[k]]
    /\ items' = SendCacheInsert(items, nextId, now)
    /\ everInserted' = everInserted \cup (DOMAIN items' \ DOMAIN items)
    /\ sendKey' = nextId
    /\ nextId' = nextId + 1
    /\ tosend' = Tail(tosend)
    /\ sendPc' = "write"
    /\ UNCHANGED <<now, stop, onEvicted, wire, echoes, recvPc, recvId,
                   janPc, evictedItems, janView, doneKey, cbc,
                   rhPc, rhProbe, rhResult, results,
                   matched, delivered, swapped, emitted>>
    /\ UNCHANGED <<muxVars, sumVars, restVars>>

\* p.conn.WriteToUDP(packedData, addr)
SendWrite ==
    /\ sendPc = "write"
    /\ wire' = wire \cup {sendKey}
    /\ sendPc' = "select"
    /\ UNCHANGED <<now, stop, tosend, nextId, probes, items, onEvicted,
                   sendKey, echoes, recvPc, recvId,
                   janPc, evictedItems, janView, doneKey, cbc,
                   rhPc, rhProbe, rhResult, results,
                   everInserted, matched, delivered, swapped, emitted>>
    /\ UNCHANGED <<muxVars, sumVars, restVars>>

\* case <-p.stop: return
SendStop ==
    /\ sendPc = "select"
    /\ stop
    /\ sendPc' = "exit"
    /\ UNCHANGED <<now, stop, tosend, nextId, probes, items, onEvicted,
                   sendKey, wire, echoes, recvPc, recvId,
                   janPc, evictedItems, janView, doneKey, cbc,
                   rhPc, rhProbe, rhResult, results,
                   everInserted, matched, delivered, swapped, emitted>>
    /\ UNCHANGED <<muxVars, sumVars, restVars>>

(***************************************************************************)
(* Port.recv                                                               *)
(***************************************************************************)
\* case <-p.stop
RecvSelectStop ==
    /\ recvPc = "select"
    /\ stop
    /\ recvPc' = "swap"
    /\ UNCHANGED <<now, stop, tosend, nextId, probes, items, onEvicted,
                   sendPc, sendKey, wire, echoes, recvId,
                   janPc, evictedItems, janView, doneKey, cbc,
                   rhPc, rhProbe, rhResult, results,
                   everInserted, matched, delivered, swapped, emitted>>
    /\ UNCHANGED <<muxVars, sumVars, restVars>>

\* p.cache.OnEvicted(func(s string, i interface{}) {}); return
RecvSwap ==
    /\ recvPc = "swap"
    /\ onEvicted' = "noop"
    /\ swapped' = TRUE
    /\ recvPc' = "exit"
    /\ UNCHANGED <<now, stop, tosend, nextId, probes, items,
                   sendPc, sendKey, wire, echoes, recvId,
                   janPc, evictedItems, janView, doneKey, cbc,
                   rhPc, rhProbe, rhResult, results,
                   everInserted, matched, delivered, emitted>>
    /\ UNCHANGED <<muxVars, sumVars, restVars>>

\* a receive loop that reads without looking at stop
RecvSelectDefaultUnchecked ==
    /\ recvPc = "select"
    /\ recvPc' = "read"
    /\ UNCHANGED <<now, stop, tosend, nextId, probes, items, onEvicted,
                   sendPc, sendKey, wire, echoes, recvId,
                   janPc, evictedItems, janView, doneKey, cbc,
                   rhPc, rhProbe, rhResult, results,
                   everInserted, matched, delivered, swapped, emitted>>
    /\ UNCHANGED <<muxVars, sumVars, restVars>>

\* default: (taken only when stop is not ready) SetReadDeadline
RecvSelectDefault ==
    /\ recvPc = "select"
    /\ ~stop
    /\ recvPc' = "read"
    /\ UNCHANGED <<now, stop, tosend, nextId, probes, items, onEvicted,
                   sendPc, sendKey, wire, echoes, recvId,
                   janPc, evictedItems, janView, doneKey, cbc,
                   rhPc, rhProbe, rhResult, results,
                   everInserted, matched, delivered, swapped, emitted>>
    /\ UNCHANGED <<muxVars, sumVars, restVars>>

\* ReadMsgUDP ends with a timeout: continue
RecvTimeout ==
    /\ recvPc = "read"
    /\ recvPc' = "select"
    /\ UNCHANGED <<now, stop, tosend, nextId, probes, items, onEvicted,
                   sendPc, sendKey, wire, echoes, recvId,
                   janPc, evictedItems, janView, doneKey, cbc,
                   rhPc, rhProbe, rhResult, results,
                   everInserted, matched, delivered, swapped, emitted>>
    /\ UNCHANGED <<muxVars, sumVars, restVars>>

\* ReadMsgUDP returns a datagram: an echo of a transmitted probe (possibly a
\* late or duplicate one) or a datagram carrying no signature of this Port
RecvRead ==
    /\ recvPc = "read"
    /\ echoes < MaxEchoes
    /\ \E sig \in wire \cup {NoSig} : recvId' = sig
    /\ echoes' = echoes + 1
    /\ recvPc' = "get"
    /\ UNCHANGED <<now, stop, tosend, nextId, probes, items, onEvicted,
                   sendPc, sendKey, wire,
                   janPc, evictedItems, janView, doneKey, cbc,
                   rhPc, rhProbe, rhResult, results,
                   everInserted, matched, delivered, swapped, emitted>>
    /\ UNCHANGED <<muxVars, sumVars, restVars>>

\* recv going on without testing found
RecvLookupUnchecked(its, id, t) == TRUE

\* the lookup of recv: cValue, found := p.cache.Get(id)
RecvLookup(its, id, t) == CacheGet(its, id, t)

\* Get, and the continue on a miss
RecvGet ==
    /\ recvPc = "get"
    /\ recvPc' = IF RecvLookup(items, recvId, now) THEN "stamp" ELSE "select"
    /\ matched' = IF RecvLookup(items, recvId, now)
                  THEN matched \cup {recvId} ELSE matched
    /\ UNCHANGED <<now, stop, tosend, nextId, probes, items, onEvicted,
                   sendPc, sendKey, wire, echoes, recvId,
                   janPc, evictedItems, janView, doneKey, cbc,
                   rhPc, rhProbe, rhResult, results,
                   everInserted, delivered, swapped, emitted>>
    /\ UNCHANGED <<muxVars, sumVars, restVars>>

\* probe.CRcvd = NowUint64(), through the pointer the cache holds
RecvStamp ==
    /\ recvPc = "stamp"
    /\ probes' = [probes EXCEPT ![recvId].CRcvd = now]
    /\ recvPc' = "replace"
    /\ UNCHANGED <<now, stop, tosend, nextId, items, onEvicted,
                   sendPc, sendKey, wire, echoes, recvId,
                   janPc, evictedItems, janView, doneKey, cbc,
                   rhPc, rhProbe, rhResult, results,
                   everInserted, matched, delivered, swapped, emitted>>
    /\ UNCHANGED <<muxVars, sumVars, restVars>>

\* recv writing the entry back with Set, which inserts a missing key
RecvUpdateBySet(its, id, t) == CacheSet(its, id, t, ExpireNow)

\* the update of recv: _ = p.cache.Replace(id, probe, ExpireNow)
RecvUpdate(its, id, t) == CacheReplace(its, id, t, ExpireNow)

RecvReplace ==
    /\ recvPc = "replace"
    /\ items' = RecvUpdate(items, recvId, now)
    /\ everInserted' = everInserted \cup (DOMAIN items' \ DOMAIN items)
    /\ recvPc' = "select"
    /\ UNCHANGED <<now, stop, tosend, nextId, probes, onEvicted,
                   sendPc, sendKey, wire, echoes, recvId,
                   janPc, evictedItems, janView, doneKey, cbc,
                   rhPc, rhProbe, rhResult, results,
                   matched, delivered, swapped, emitted>>
    /\ UNCHANGED <<muxVars, sumVars, restVars>>

(***************************************************************************)
(* The cache's cleaner (go-cache janitor: DeleteExpired) and Port.done     *)
(***************************************************************************)
Restrict(f, S) == [x \in S |-> f[x]]

\* DeleteExpired under the cache lock: every expired entry is removed and
\* queued for the eviction callback
JanSweep ==
    /\ janPc = "idle"
    /\ ExpiredKeys(items, now) # {}
    /\ evictedItems' = ExpiredKeys(items, now)
    /\ items' = Restrict(items, DOMAIN items \ ExpiredKeys(items, now))
    /\ janView' = onEvicted
    /\ janPc' = "calling"
    /\ UNCHANGED <<now, stop, tosend, nextId, probes, onEvicted,
                   sendPc, sendKey, wire, echoes, recvPc, recvId,
                   doneKey, cbc, rhPc, rhProbe, rhResult, results,
                   everInserted, matched, delivered, swapped, emitted>>
    /\ UNCHANGED <<muxVars, sumVars, restVars>>

\* the callbacks an unlocked read of c.onEvicted can yield: the one seen
\* under the lock during the sweep, or the one installed since
CallbackRead == {janView, onEvicted}

\* DeleteExpired after the unlock: c.onEvicted(v.key, v.value) for the next
\* evicted entry (map order); with Port.done the call is entered
JanCall ==
    /\ janPc = "calling"
    /\ \E k \in evictedItems, f \in CallbackRead :
          /\ evictedItems' = evictedItems \ {k}
          /\ IF f = "done"
             THEN janPc' = "done" /\ doneKey' = k
             ELSE /\ janPc' = IF evictedItems' = {} THEN "idle" ELSE "calling"
                  /\ doneKey' = doneKey
    /\ UNCHANGED <<now, stop, tosend, nextId, probes, items, onEvicted,
                   sendPc, sendKey, wire, echoes, recvPc, recvId,
                   janView, cbc, rhPc, rhProbe, rhResult, results,
                   everInserted, matched, delivered, swapped, emitted>>
    /\ UNCHANGED <<muxVars, sumVars, restVars>>

\* Port.done: p.cbc <- probe (blocks while cbc is full)
PortDone ==
    /\ janPc = "done"
    /\ Len(cbc) < CbcCap
    /\ cbc' = Append(cbc, doneKey)
    /\ delivered' = [delivered EXCEPT ![doneKey] = Append(@, probes[doneKey].CRcvd)]
    /\ doneKey' = NoSig
    /\ janPc' = IF evictedItems = {} THEN "idle" ELSE "calling"
    /\ UNCHANGED <<now, stop, tosend, nextId, probes, items, onEvicted,
                   sendPc, sendKey, wire, echoes, recvPc, recvId,
                   evictedItems, janView, rhPc, rhProbe, rhResult, results, everInserted, matched, swapped, emitted>>
    /\ UNCHANGED <<muxVars, sumVars, restVars>>

(***************************************************************************)
(* ResultHandler.run and the Summarizer's store task                      *)
(* taking Results off the results channel                                  *)
(***************************************************************************)
\* case probe := <-rh.in: result = Process(probe)
RhTake ==
    /\ rhPc = "in"
    /\ cbc # <<>>
    /\ rhProbe' = Head(cbc)
    /\ rhResult' = Process(probes[Head(cbc)])
    /\ cbc' = Tail(cbc)
    /\ rhPc' = "out"
    /\ UNCHANGED <<now, stop, tosend, nextId, probes, items, onEvicted,
                   sendPc, sendKey, wire, echoes, recvPc, recvId,
                   janPc, evictedItems, janView, doneKey, results,
                   everInserted, matched, delivered, swapped, emitted>>
    /\ UNCHANGED <<muxVars, sumVars, restVars>>

\* case rh.out <- result
RhEmit ==
    /\ rhPc = "out"
    /\ Len(results) < ResultsCap
    /\ results' = Append(results, rhResult)
    /\ emitted' = [emitted EXCEPT ![rhProbe] = Append(@, rhResult)]
    /\ rhPc' = "in"
    /\ UNCHANGED <<now, stop, tosend, nextId, probes, items, onEvicted,
                   sendPc, sendKey, wire, echoes, recvPc, recvId,
                   janPc, evictedItems, janView, doneKey, cbc,
                   rhProbe, rhResult, everInserted, matched, delivered, swapped>>
    /\ UNCHANGED <<muxVars, sumVars, restVars>>

\* Summarizer.store: case result := <-s.in
StoreRecv ==
    /\ results # <<>>
    /\ results' = Tail(results)
    /\ UNCHANGED <<now, stop, tosend, nextId, probes, items, onEvicted,
                   sendPc, sendKey, wire, echoes, recvPc, recvId,
                   janPc, evictedItems, janView, doneKey, cbc,
                   rhPc, rhProbe, rhResult, everInserted, matched, delivered, swapped, emitted>>
    /\ UNCHANGED <<muxVars, sumVars, restVars>>

(***************************************************************************)
(* The Port pipeline                                                       *)
(***************************************************************************)
NextPort ==
    \/ Tick
    \/ StopCall
    \/ PortFeed
    \/ SendTake
    \/ SendWrite
    \/ SendStop
    \/ RecvSelectStop
    \/ RecvSwap
    \/ RecvSelectDefault
    \/ RecvTimeout
    \/ RecvRead
    \/ RecvGet
    \/ RecvStamp
    \/ RecvReplace
    \/ JanSweep
    \/ JanCall
    \/ PortDone
    \/ RhTake
    \/ RhEmit
    \/ StoreRecv

SpecPort == Init /\ [][NextPort]_vars

\* the pipeline while nobody calls Stop: the targets keep coming, the clock
\* runs, the cleaner sweeps, the ResultHandler and the store task drain
NextPortRunning ==
    \/ Tick
    \/ PortFeed
    \/ SendTake
    \/ SendWrite
    \/ RecvSelectDefault
    \/ RecvTimeout
    \/ RecvRead
    \/ RecvGet
    \/ RecvStamp
    \/ RecvReplace
    \/ JanSweep
    \/ JanCall
    \/ PortDone
    \/ RhTake
    \/ RhEmit
    \/ StoreRecv

FairSpecPort ==
    /\ Init
    /\ [][NextPortRunning]_vars
    /\ WF_vars(Tick)
    /\ WF_vars(JanSweep)
    /\ WF_vars(JanCall)
    /\ WF_vars(PortDone)
    /\ WF_vars(RhTake)
    /\ WF_vars(RhEmit)
    /\ WF_vars(StoreRecv)

(***************************************************************************)
(* Properties of the Port pipeline                                         *)
(***************************************************************************)
\* C1: a probe inserted into the cache is delivered to cbc at most once, so
\* never once as received and once as lost; a duplicate or late echo of its
\* signature causes no second delivery.
DeliveredAtMostOnce ==
    \A k \in Sigs :
        /\ Len(delivered[k]) <= 1
        /\ Cardinality({i \in 1..Len(cbc) : cbc[i] = k}) <= 1

\* a received probe has been delivered and recv is looking up a further
\* echo of its signature
LateEchoAfterDelivery ==
    \E k \in Sigs :
        /\ delivered[k] # <<>>
        /\ delivered[k][1] # 0
        /\ recvPc = "get"
        /\ recvId = k

MatchedIffReceived ==
    \A k \in Sigs :
        /\ delivered[k] # <<>> => (delivered[k][1] # 0 <=> k \in matched)
        /\ emitted[k] # <<>> => (emitted[k][1].Lost <=> k \notin matched)

\* C3, second half alone: without a matched echo the probe is reported lost
UnmatchedIsLost ==
    \A k \in Sigs :
        /\ (delivered[k] # <<>> /\ k \notin matched) => delivered[k][1] = 0
        /\ (emitted[k] # <<>> /\ k \notin matched) => emitted[k][1].Lost

\* C4: once recv has installed the no-op callback, no probe of the Port is
\* delivered to cbc any more.
NoDeliveryAfterSwap ==
    [][swapped => delivered' = delivered /\ Len(cbc') <= Len(cbc)]_vars

\* C5: a datagram whose signature has no live cache entry delivers nothing,
\* leaves the cache and the probes unchanged, and recv goes on receiving.
MissIsSilent ==
    [][(recvPc = "get" /\ ~CacheGet(items, recvId, now) /\ recvPc' # "get")
         => /\ recvPc' = "select"
            /\ items' = items
            /\ probes' = probes
            /\ cbc' = cbc
            /\ delivered' = delivered]_vars

\* recv is back in its loop after the echo of a probe whose entry had
\* expired but was still in the cache: the probe is unstamped
MissOnExpiredEntry ==
    /\ recvPc = "select"
    /\ recvId \in DOMAIN items
    /\ Expired(items, recvId, now)
    /\ recvId \notin matched
    /\ probes[recvId].CRcvd = 0

NoInsertAfterStop ==
    [][stop => everInserted' = everInserted]_vars

\* once stop is closed Port.send transmits nothing, not even the probe whose
\* entry it had inserted before
NoTransmitAfterStop ==
    [][stop => wire' = wire]_vars

RangeNext(left) == IF left = {} THEN {NoPort} ELSE left

\* case addr := <-pg.tosend: pg.mux(addr) is entered
PgTake ==
    /\ pgPc = "select"
    /\ Len(taken) < MaxTaken
    /\ \E addr \in Addrs :
          /\ muxAddr' = addr
          /\ taken' = Append(taken, addr)
    /\ muxLeft' = pgPorts
    /\ muxCur' \in RangeNext(pgPorts)
    /\ pgPc' = IF pgPorts = {} THEN "select" ELSE "mux"
    /\ UNCHANGED <<pgPorts, chans, sending, placed>>
    /\ UNCHANGED <<portVars, sumVars, restVars>>

\* case <-pg.stop: pg.ports = nil; return
PgStop ==
    /\ pgPc = "select"
    /\ stop
    /\ pgPorts' = {}
    /\ pgPc' = "exit"
    /\ UNCHANGED <<muxAddr, muxLeft, muxCur, chans, sending, taken, placed>>
    /\ UNCHANGED <<portVars, sumVars, restVars>>

\* one round of mux that skips a Port whose channel is not ready
MuxPutOrSkip(p) ==
    /\ pgPc = "mux"
    /\ p = muxCur
    /\ IF Len(chans[p]) < TosendCap
       THEN /\ chans' = [chans EXCEPT ![p] = Append(@, muxAddr)]
            /\ placed' = [placed EXCEPT ![p] = Append(@, muxAddr)]
       ELSE UNCHANGED <<chans, placed>>
    /\ muxLeft' = muxLeft \ {p}
    /\ muxCur' \in RangeNext(muxLeft')
    /\ pgPc' = IF muxLeft' = {} THEN "select" ELSE "mux"
    /\ UNCHANGED <<muxAddr, pgPorts, sending, taken>>
    /\ UNCHANGED <<portVars, sumVars, restVars>>

\* one round of the loop of mux: c <- addr (blocks while c is full), for the
\* next Port in map order; after the last Port mux returns to run
MuxPut(p) ==
    /\ pgPc = "mux"
    /\ p = muxCur
    /\ Len(chans[p]) < TosendCap
    /\ chans' = [chans EXCEPT ![p] = Append(@, muxAddr)]
    /\ placed' = [placed EXCEPT ![p] = Append(@, muxAddr)]
    /\ muxLeft' = muxLeft \ {p}
    /\ muxCur' \in RangeNext(muxLeft')
    /\ pgPc' = IF muxLeft' = {} THEN "select" ELSE "mux"
    /\ UNCHANGED <<muxAddr, pgPorts, sending, taken>>
    /\ UNCHANGED <<portVars, sumVars, restVars>>

\* Port.send of Port p: case addr := <-p.tosend
MuxPortTake(p) ==
    /\ p \in sending
    /\ chans[p] # <<>>
    /\ chans' = [chans EXCEPT ![p] = Tail(@)]
    /\ UNCHANGED <<pgPc, muxAddr, muxLeft, muxCur, pgPorts, sending, taken,
                   placed>>
    /\ UNCHANGED <<portVars, sumVars, restVars>>

\* Port.send of Port p: case <-p.stop: return
MuxPortStop(p) ==
    /\ p \in sending
    /\ stop
    /\ sending' = sending \ {p}
    /\ UNCHANGED <<pgPc, muxAddr, muxLeft, muxCur, pgPorts, chans, taken,
                   placed>>
    /\ UNCHANGED <<portVars, sumVars, restVars>>

NextMux ==
    \/ StopCall
    \/ PgTake
    \/ PgStop
    \/ \E p \in Ports : MuxPut(p)
    \/ \E p \in Ports : MuxPortTake(p)
    \/ \E p \in Ports : MuxPortStop(p)

SpecMux == Init /\ [][NextMux]_vars

(***************************************************************************)
(* Properties of the PortGroup                                             *)
(***************************************************************************)
Front(q) == SubSeq(q, 1, Len(q) - 1)

TickTask == NumStores + 1

\* addResult: key := fmt.Sprintf("src_%v->dst_%v", result.Pd.SrcIP, result.Pd.DstIP)
\* %v of a net.IP prints the address, whatever the length of the slice
IPString(ip) == ip.addr

\* a key made of every field of the PathDist
KeyByPath(pd) == pd

Key(pd) == <<IPString(pd.SrcIP), IPString(pd.DstIP)>>

\* s.results[key] = append(s.results[key], result)
MapAppend(res, k, r) ==
    [x \in DOMAIN res \cup {k} |->
        IF x = k
        THEN (IF k \in DOMAIN res THEN Append(res[k], r) ELSE <<r>>)
        ELSE res[x]]

\* a summarize step that leaves the stored results in place
ResetResultsKept(res) == res

\* a summarize step that empties every bucket and keeps the keys
ResetResultsEmptied(res) == [k \in DOMAIN res |-> <<>>]

\* summarize: s.results = make(map[string][]*Result)
ResetResults(res) == EmptyMap

\* CalcCounts; counted is a history field: the Results the Summary counts
summarizeSet(rs) ==
    [Pd |-> rs[1].Pd,
     Sent |-> Len(rs),
     Lost |-> Cardinality({i \in 1..Len(rs) : rs[i].Lost}),
     counted |-> {rs[i].id : i \in 1..Len(rs)}]

\* a summarize step that fills the published slice itself
CacheFilledInPlace(cache, newc) == newc

\* summarize appends to the local newCache; s.Cache is untouched meanwhile
CacheDuringBuild(cache, newc) == cache

Summarized(newc) == {Key(newc[i].Pd) : i \in 1..Len(newc)}

\* number of summarize steps that have swapped the results map
Swaps == IF tkPc = "lock" \/ tkPc = "swap" THEN ticks - 1 ELSE ticks

\* a ResultHandler sends a Result on the Summarizer's input channel
SumFeed ==
    /\ Len(sumIn) < ResultsCap
    /\ nextRes <= MaxResults
    /\ \E pd \in PathDists, lost \in BOOLEAN :
          sumIn' = Append(sumIn, [id |-> nextRes, Pd |-> pd, Lost |-> lost])
    /\ nextRes' = nextRes + 1
    /\ UNCHANGED <<sResults, sMutex, sCache, cReaders, cWriter, cPending,
                   stPc, stRes, tkPc, tkResults, newCache, ticks,
                   rdPc, rdView, storedAt, published, cacheSource>>
    /\ UNCHANGED <<portVars, muxVars, restVars>>

\* store: case result := <-s.in
StoreTake(t) ==
    /\ stPc[t] = "recv"
    /\ sumIn # <<>>
    /\ stRes' = [stRes EXCEPT ![t] = Head(sumIn)]
    /\ sumIn' = Tail(sumIn)
    /\ stPc' = [stPc EXCEPT ![t] = "lock"]
    /\ UNCHANGED <<nextRes, sResults, sMutex, sCache, cReaders, cWriter, cPending,
                   tkPc, tkResults, newCache, ticks,
                   rdPc, rdView, storedAt, published, cacheSource>>
    /\ UNCHANGED <<portVars, muxVars, restVars>>

\* addResult: s.mutex.Lock()
StoreLock(t) ==
    /\ stPc[t] = "lock"
    /\ sMutex = 0
    /\ sMutex' = t
    /\ stPc' = [stPc EXCEPT ![t] = "append"]
    /\ UNCHANGED <<sumIn, nextRes, sResults, sCache, cReaders, cWriter, cPending,
                   stRes, tkPc, tkResults, newCache, ticks,
                   rdPc, rdView, storedAt, published, cacheSource>>
    /\ UNCHANGED <<portVars, muxVars, restVars>>

\* addResult: append under the lock, s.mutex.Unlock()
StoreAppend(t) ==
    /\ stPc[t] = "append"
    /\ sMutex = t
    /\ sResults' = MapAppend(sResults, Key(stRes[t].Pd), stRes[t])
    /\ storedAt' = [x \in DOMAIN storedAt \cup {stRes[t].id} |->
                      IF x = stRes[t].id
                      THEN [swaps |-> Swaps, pubs |-> Len(published)]
                      ELSE storedAt[x]]
    /\ sMutex' = 0
    /\ stPc' = [stPc EXCEPT ![t] = "recv"]
    /\ stRes' = [stRes EXCEPT ![t] = NoRes]
    /\ UNCHANGED <<sumIn, nextRes, sCache, cReaders, cWriter, cPending,
                   tkPc, tkResults, newCache, ticks,
                   rdPc, rdView, published, cacheSource>>
    /\ UNCHANGED <<portVars, muxVars, restVars>>

\* waitToSummarize: case <-s.ticker.C
SumTick ==
    /\ tkPc = "wait"
    /\ ticks < MaxTicks
    /\ ticks' = ticks + 1
    /\ tkPc' = "lock"
    /\ UNCHANGED <<sumIn, nextRes, sResults, sMutex, sCache, cReaders, cWriter,
                   cPending, stPc, stRes, tkResults, newCache,
                   rdPc, rdView, storedAt, published, cacheSource>>
    /\ UNCHANGED <<portVars, muxVars, restVars>>

\* summarize: s.mutex.Lock()
SumLock ==
    /\ tkPc = "lock"
    /\ sMutex = 0
    /\ sMutex' = TickTask
    /\ tkPc' = "swap"
    /\ UNCHANGED <<sumIn, nextRes, sResults, sCache, cReaders, cWriter,
                   cPending, stPc, stRes, tkResults, newCache, ticks,
                   rdPc, rdView, storedAt, published, cacheSource>>
    /\ UNCHANGED <<portVars, muxVars, restVars>>

\* summarize: results := s.results; s.results = make(...); s.mutex.Unlock();
\* var newCache []*Summary
SumSwap ==
    /\ tkPc = "swap"
    /\ sMutex = TickTask
    /\ tkResults' = sResults
    /\ sResults' = ResetResults(sResults)
    /\ sMutex' = 0
    /\ newCache' = <<>>
    /\ sCache' = CacheDuringBuild(sCache, newCache')
    /\ tkPc' = "build"
    /\ UNCHANGED <<sumIn, nextRes, cReaders, cWriter, cPending, stPc, stRes,
                   ticks, rdPc, rdView, storedAt, published, cacheSource>>
    /\ UNCHANGED <<portVars, muxVars, restVars>>

\* summarize: one iteration of for _, results := range results, in the
\* map's arbitrary order
SumBuild ==
    /\ tkPc = "build"
    /\ \E k \in DOMAIN tkResults \ Summarized(newCache) :
          newCache' = Append(newCache, summarizeSet(tkResults[k]))
    /\ sCache' = CacheDuringBuild(sCache, newCache')
    /\ UNCHANGED <<sumIn, nextRes, sResults, sMutex, cReaders, cWriter, cPending,
                   stPc, stRes, tkPc, tkResults, ticks,
                   rdPc, rdView, storedAt, published, cacheSource>>
    /\ UNCHANGED <<portVars, muxVars, restVars>>

\* summarize: s.CMutex.Lock() is called when the loop is over; a waiting
\* writer keeps new readers out
SumCLockRequest ==
    /\ tkPc = "build"
    /\ DOMAIN tkResults \subseteq Summarized(newCache)
    /\ cPending' = TRUE
    /\ tkPc' = "clock"
    /\ UNCHANGED <<sumIn, nextRes, sResults, sMutex, sCache, cReaders, cWriter,
                   stPc, stRes, tkResults, newCache, ticks,
                   rdPc, rdView, storedAt, published, cacheSource>>
    /\ UNCHANGED <<portVars, muxVars, restVars>>

\* summarize: s.CMutex.Lock() returns once no reader holds the lock
SumCLockAcquire ==
    /\ tkPc = "clock"
    /\ cReaders = {}
    /\ cWriter' = TRUE
    /\ cPending' = FALSE
    /\ tkPc' = "publish"
    /\ UNCHANGED <<sumIn, nextRes, sResults, sMutex, sCache, cReaders,
                   stPc, stRes, tkResults, newCache, ticks,
                   rdPc, rdView, storedAt, published, cacheSource>>
    /\ UNCHANGED <<portVars, muxVars, restVars>>

\* summarize: s.Cache = newCache; s.CMutex.Unlock()
SumPublish ==
    /\ tkPc = "publish"
    /\ sCache' = newCache
    /\ published' = Append(published, newCache)
    /\ cacheSource' = tkResults
    /\ cWriter' = FALSE
    /\ tkResults' = EmptyMap
    /\ newCache' = <<>>
    /\ tkPc' = "wait"
    /\ UNCHANGED <<sumIn, nextRes, sResults, sMutex, cReaders, cPending,
                   stPc, stRes, ticks, rdPc, rdView, storedAt>>
    /\ UNCHANGED <<portVars, muxVars, restVars>>

\* InfluxHandler: api.summarizer.CMutex.RLock()
RdLock(r) ==
    /\ rdPc[r] = "idle"
    /\ ~cWriter
    /\ ~cPending
    /\ cReaders' = cReaders \cup {r}
    /\ rdPc' = [rdPc EXCEPT ![r] = "locked"]
    /\ UNCHANGED <<sumIn, nextRes, sResults, sMutex, sCache, cWriter, cPending,
                   stPc, stRes, tkPc, tkResults, newCache, ticks,
                   rdView, storedAt, published, cacheSource>>
    /\ UNCHANGED <<portVars, muxVars, restVars>>

\* InfluxHandler: summaries := api.summarizer.Cache
RdRead(r) ==
    /\ rdPc[r] = "locked"
    /\ rdView' = [rdView EXCEPT ![r] = sCache]
    /\ rdPc' = [rdPc EXCEPT ![r] = "read"]
    /\ UNCHANGED <<sumIn, nextRes, sResults, sMutex, sCache, cReaders, cWriter,
                   cPending, stPc, stRes, tkPc, tkResults, newCache, ticks,
                   storedAt, published, cacheSource>>
    /\ UNCHANGED <<portVars, muxVars, restVars>>

\* InfluxHandler: NewFromSummaries(summaries, api.ts) done,
\* api.summarizer.CMutex.RUnlock()
RdUnlock(r) ==
    /\ rdPc[r] = "read"
    /\ cReaders' = cReaders \ {r}
    /\ rdView' = [rdView EXCEPT ![r] = <<>>]
    /\ rdPc' = [rdPc EXCEPT ![r] = "idle"]
    /\ UNCHANGED <<sumIn, nextRes, sResults, sMutex, sCache, cWriter, cPending,
                   stPc, stRes, tkPc, tkResults, newCache, ticks,
                   storedAt, published, cacheSource>>
    /\ UNCHANGED <<portVars, muxVars, restVars>>

NextSum ==
    \/ SumFeed
    \/ \E t \in Stores : StoreTake(t)
    \/ \E t \in Stores : StoreLock(t)
    \/ \E t \in Stores : StoreAppend(t)
    \/ SumTick
    \/ SumLock
    \/ SumSwap
    \/ SumBuild
    \/ SumCLockRequest
    \/ SumCLockAcquire
    \/ SumPublish
    \/ \E r \in Readers : RdLock(r)
    \/ \E r \in Readers : RdRead(r)
    \/ \E r \in Readers : RdUnlock(r)

SpecSum == Init /\ [][NextSum]_vars

(***************************************************************************)
(* Properties of the Summarizer                                            *)
(***************************************************************************)
\* the published Summaries that count the Result id, as <<batch, index>>
CountedIn(id) ==
    {bi \in (1..Len(published)) \X (1..Cardinality(DOMAIN storedAt)) :
        /\ bi[2] <= Len(published[bi[1]])
        /\ id \in published[bi[1]][bi[2]].counted}

\* C9: every Result stored by addResult is counted in at most one published
\* Summary, and once the first summarize step after its storage has
\* published, it is counted in exactly one Summary, of that step's batch;
\* a Summary's Sent is the number of Results it counts.
StoredCountedOnce ==
    /\ \A id \in DOMAIN storedAt :
          /\ Cardinality(CountedIn(id)) <= 1
          /\ \A bi \in CountedIn(id) : bi[1] = storedAt[id].swaps + 1
          /\ Len(published) > storedAt[id].swaps => CountedIn(id) # {}
    /\ \A n \in 1..Len(published) : \A i \in 1..Len(published[n]) :
          published[n][i].Sent = Cardinality(published[n][i].counted)

\* a Result stored while the first batch was being built is counted in the
\* second batch, next to a Result of the first batch on the same path
StoredDuringBuildCountedNext ==
    \E a, b \in DOMAIN storedAt :
        /\ storedAt[a].swaps = 0
        /\ storedAt[b].swaps = 1 /\ storedAt[b].pubs = 0
        /\ Len(published) = 2
        /\ \E i \in 1..Len(published[1]) : a \in published[1][i].counted
        /\ \E i \in 1..Len(published[2]) : b \in published[2][i].counted

\* the slice holds one Summary for each path of the batch and no other
Complete(cache, source) ==
    /\ Summarized(cache) = DOMAIN source
    /\ Len(cache) = Cardinality(DOMAIN source)
    /\ \A i \in 1..Len(cache) : cache[i] = summarizeSet(source[Key(cache[i].Pd)])

\* C10: a reader holding the shared lock of the summary cache has read the
\* slice that is published, and that slice is complete: one Summary for
\* each path of the batch it was built from, none for any other path.
ReaderSeesCompleteSlice ==
    \A r \in Readers :
        rdPc[r] = "read" => /\ rdView[r] = sCache
                            /\ Complete(rdView[r], cacheSource)

\* a reader holds the first published slice while the next one, of two
\* paths, is half built
ReaderDuringBuild ==
    \E r \in Readers :
        /\ rdPc[r] = "read"
        /\ Len(rdView[r]) = 1
        /\ tkPc = "build"
        /\ Len(newCache) = 1
        /\ Cardinality(DOMAIN tkResults) = 2

(***************************************************************************)
(* Process and RTT as functions of the Probe                               *)
(***************************************************************************)
\* Process(probe); pErr: RTT returned an error, which HandleMinorError logs
ProcessCall ==
    /\ \E pd \in ProbePds, sent \in Stamps, rcvd \in Stamps :
          LET probe == [Pd |-> pd, CSent |-> sent, CRcvd |-> rcvd]
          IN /\ pIn' = probe
             /\ pOut' = Process(probe)
             /\ pErr' = RTT(probe).err
    /\ pCalled' = TRUE
    /\ UNCHANGED <<portVars, muxVars, sumVars, handlerVars, runnerVars, sumStopVars, calcVars, moreVars>>

NextProc == ProcessCall

SpecProc == Init /\ [][NextProc]_vars

\* C11: Process returns a Result with the probe's path and Done = CRcvd;
\* CRcvd = 0: RTT 0, lost, no error; CRcvd # 0 and CSent > CRcvd: RTT 0,
\* lost, an error (logged as minor); otherwise RTT = CRcvd - CSent, not
\* lost, no error.
ProcessContract ==
    pCalled =>
        /\ pOut.Pd = pIn.Pd
        /\ pOut.Done = pIn.CRcvd
        /\ pIn.CRcvd = 0 => pOut.RTT = 0 /\ pOut.Lost /\ ~pErr
        /\ (pIn.CRcvd # 0 /\ pIn.CSent > pIn.CRcvd)
              => pOut.RTT = 0 /\ pOut.Lost /\ pErr
        /\ (pIn.CRcvd # 0 /\ pIn.CSent <= pIn.CRcvd)
              => pOut.RTT = pIn.CRcvd - pIn.CSent /\ ~pOut.Lost /\ ~pErr

\* Process was given a probe stamped as received before it was sent
OutOfOrderProbeProcessed ==
    /\ pCalled
    /\ pIn.CRcvd # 0
    /\ pIn.CSent > pIn.CRcvd
    /\ pOut.Lost

(***************************************************************************)
(* Several ResultHandlers draining the same callback channel               *)
(***************************************************************************)
\* a Port hands a probe, matched or timed out, to the callback channel
HFeed ==
    /\ Len(hCbc) < CbcCap
    /\ hNext <= MaxFed
    /\ \E rcvd \in {0, 2} :
          hCbc' = Append(hCbc, [id |-> hNext,
                                probe |-> [Pd |-> 1, CSent |-> 1, CRcvd |-> rcvd]])
    /\ hNext' = hNext + 1
    /\ UNCHANGED <<hOut, hPc, hResult, hStop, hTook, hRecvd>>
    /\ UNCHANGED <<portVars, muxVars, sumVars, procVars, runnerVars, sumStopVars, calcVars, moreVars>>

\* a receive that leaves the probe on the channel
ChanPeek(q) == q

\* probe := <-rh.in removes the probe from the channel
ChanTake(q) == Tail(q)

\* run: case probe := <-rh.in: result = Process(probe)
HTake(h) ==
    /\ hPc[h] = "in"
    /\ hCbc # <<>>
    /\ hResult' = [hResult EXCEPT ![h] = [id |-> Head(hCbc).id,
                                          res |-> Process(Head(hCbc).probe)]]
    /\ hTook' = [x \in DOMAIN hTook \cup {Head(hCbc).id} |->
                   IF x \in DOMAIN hTook /\ x = Head(hCbc).id
                   THEN hTook[x] \cup {h}
                   ELSE IF x = Head(hCbc).id THEN {h} ELSE hTook[x]]
    /\ hCbc' = ChanTake(hCbc)
    /\ hPc' = [hPc EXCEPT ![h] = "out"]
    /\ UNCHANGED <<hOut, hNext, hStop, hRecvd>>
    /\ UNCHANGED <<portVars, muxVars, sumVars, procVars, runnerVars, sumStopVars, calcVars, moreVars>>

\* run: case rh.out <- result
HEmit(h) ==
    /\ hPc[h] = "out"
    /\ Len(hOut) < ResultsCap
    /\ hOut' = Append(hOut, hResult[h])
    /\ hResult' = [hResult EXCEPT ![h] = NoHandled]
    /\ hPc' = [hPc EXCEPT ![h] = "in"]
    /\ UNCHANGED <<hCbc, hNext, hStop, hTook, hRecvd>>
    /\ UNCHANGED <<portVars, muxVars, sumVars, procVars, runnerVars, sumStopVars, calcVars, moreVars>>

\* ResultHandler.Stop: close(rh.stop)
HStop(h) ==
    /\ ~hStop[h]
    /\ hStop' = [hStop EXCEPT ![h] = TRUE]
    /\ UNCHANGED <<hCbc, hOut, hNext, hPc, hResult, hTook, hRecvd>>
    /\ UNCHANGED <<portVars, muxVars, sumVars, procVars, runnerVars, sumStopVars, calcVars, moreVars>>

\* a run whose second select, the hand-over to the Summarizer, has no stop case
HExitFirstSelectOnly(h) ==
    /\ hPc[h] = "in"
    /\ hStop[h]
    /\ hPc' = [hPc EXCEPT ![h] = "exit"]
    /\ UNCHANGED <<hCbc, hOut, hNext, hResult, hStop, hTook, hRecvd>>
    /\ UNCHANGED <<portVars, muxVars, sumVars, procVars, runnerVars, sumStopVars, calcVars, moreVars>>

\* run: case <-rh.stop, in either select
HExit(h) ==
    /\ hPc[h] \in {"in", "out"}
    /\ hStop[h]
    /\ hPc' = [hPc EXCEPT ![h] = "exit"]
    /\ UNCHANGED <<hCbc, hOut, hNext, hResult, hStop, hTook, hRecvd>>
    /\ UNCHANGED <<portVars, muxVars, sumVars, procVars, runnerVars, sumStopVars, calcVars, moreVars>>

\* the Summarizer receives a Result
HOutRecv ==
    /\ hOut # <<>>
    /\ hRecvd' = Append(hRecvd, Head(hOut))
    /\ hOut' = Tail(hOut)
    /\ UNCHANGED <<hCbc, hNext, hPc, hResult, hStop, hTook>>
    /\ UNCHANGED <<portVars, muxVars, sumVars, procVars, runnerVars, sumStopVars, calcVars, moreVars>>

NextHandlers ==
    \/ HFeed
    \/ \E h \in Handlers : HTake(h)
    \/ \E h \in Handlers : HEmit(h)
    \/ \E h \in Handlers : HStop(h)
    \/ \E h \in Handlers : HExit(h)
    \/ HOutRecv

SpecHandlers == Init /\ [][NextHandlers]_vars

\* the number of Results of probe id sent on the results channel so far
EmittedFor(id) ==
    Cardinality({i \in 1..Len(hOut) : hOut[i].id = id})
      + Cardinality({i \in 1..Len(hRecvd) : hRecvd[i].id = id})

\* C12: every probe taken from the callback channel was taken by exactly
\* one handler; at most one Result of it is ever sent on the results
\* channel; and while that handler is not stopped the probe is either in the
\* handler's hands or has exactly one Result sent. A probe not taken has no
\* Result.
OneResultPerTakenProbe ==
    /\ \A id \in DOMAIN hTook :
          /\ Cardinality(hTook[id]) = 1
          /\ EmittedFor(id) <= 1
          /\ \A h \in hTook[id] :
                ~hStop[h] =>
                   EmittedFor(id)
                     + (IF hPc[h] = "out" /\ hResult[h].id = id THEN 1 ELSE 0) = 1
    /\ \A id \in 1..MaxFed : id \notin DOMAIN hTook => EmittedFor(id) = 0

\* two handlers, neither stopped, delivered the Results of two probes in the
\* opposite order of the probes
ResultsOutOfOrder ==
    /\ \A h \in Handlers : ~hStop[h]
    /\ Len(hRecvd) >= 2
    /\ hRecvd[1].id = 2
    /\ hRecvd[2].id = 1

(***************************************************************************)
(* TestRunner: run, cycleTargets, Stop, Add / Del / Set, its rate limiter  *)
(* and the PortGroup receiving from its tosend channel                     *)
(***************************************************************************)
runnerOwn == <<trPc, trIdx, trRLocked, cycles, cycleList, cycleSent, completed>>

\* TestRunner.Stop: close(tr.stop)
TrStop ==
    /\ ~trStop
    /\ trStop' = TRUE
    /\ stopAtCycle' = cycles
    /\ UNCHANGED <<runnerOwn, trTargets, trWLocked, trWPending, rlTokens,
                   refills, mutPc, mutOp, muts, tpgPc>>
    /\ UNCHANGED <<portVars, muxVars, sumVars, procVars, handlerVars, sumStopVars, calcVars, moreVars>>

\* time passes and the limiter adds a token, up to its burst
RlRefill ==
    /\ refills < MaxRefills
    /\ rlTokens < Burst
    /\ rlTokens' = rlTokens + 1
    /\ refills' = refills + 1
    /\ UNCHANGED <<runnerOwn, trTargets, trStop, trWLocked, trWPending,
                   mutPc, mutOp, muts, tpgPc, stopAtCycle>>
    /\ UNCHANGED <<portVars, muxVars, sumVars, procVars, handlerVars, sumStopVars, calcVars, moreVars>>

\* run: if tr.isStopped() { return }, before and after the wait
TrCheck ==
    /\ trPc \in {"check1", "check2"}
    /\ trPc' = IF trStop THEN "exit"
               ELSE IF trPc = "check1" THEN "wait" ELSE "rlock"
    /\ UNCHANGED <<trIdx, trRLocked, cycles, cycleList, cycleSent, completed>>
    /\ UNCHANGED <<trTargets, trStop, trWLocked, trWPending, rlTokens, refills,
                   mutPc, mutOp, muts, tpgPc, stopAtCycle>>
    /\ UNCHANGED <<portVars, muxVars, sumVars, procVars, handlerVars, sumStopVars, calcVars, moreVars>>

\* a wait that returns without a token
WaitUnthrottled(tokens) == TRUE

\* rl.Wait returns once the bucket holds a token
WaitGranted(tokens) == tokens > 0

\* run: err := tr.rl.Wait(context.Background())
TrWait ==
    /\ trPc = "wait"
    /\ WaitGranted(rlTokens)
    /\ rlTokens' = rlTokens - 1
    /\ trPc' = "check2"
    /\ UNCHANGED <<trIdx, trRLocked, cycles, cycleList, cycleSent, completed>>
    /\ UNCHANGED <<trTargets, trStop, trWLocked, trWPending, refills,
                   mutPc, mutOp, muts, tpgPc, stopAtCycle>>
    /\ UNCHANGED <<portVars, muxVars, sumVars, procVars, handlerVars, sumStopVars, calcVars, moreVars>>

\* cycleTargets: tr.mutex.RLock(); the cycle begins
TrRLock ==
    /\ trPc = "rlock"
    /\ ~trWLocked
    /\ ~trWPending
    /\ trRLocked' = TRUE
    /\ trPc' = "cycle"
    /\ trIdx' = 1
    /\ cycles' = cycles + 1
    /\ cycleList' = trTargets
    /\ cycleSent' = <<>>
    /\ UNCHANGED completed
    /\ UNCHANGED <<trTargets, trStop, trWLocked, trWPending, rlTokens, refills,
                   mutPc, mutOp, muts, tpgPc, stopAtCycle>>
    /\ UNCHANGED <<portVars, muxVars, sumVars, procVars, handlerVars, sumStopVars, calcVars, moreVars>>

\* cycleTargets: tr.tosend <- target, received by PortGroup.run
\* (case addr := <-pg.tosend); the channel is unbuffered
TrSend ==
    /\ trPc = "cycle"
    /\ trIdx <= Len(trTargets)
    /\ tpgPc = "select"
    /\ cycleSent' = Append(cycleSent, trTargets[trIdx])
    /\ trIdx' = trIdx + 1
    /\ tpgPc' = "mux"
    /\ UNCHANGED <<trPc, trRLocked, cycles, cycleList, completed>>
    /\ UNCHANGED <<trTargets, trStop, trWLocked, trWPending, rlTokens, refills,
                   mutPc, mutOp, muts, stopAtCycle>>
    /\ UNCHANGED <<portVars, muxVars, sumVars, procVars, handlerVars, sumStopVars, calcVars, moreVars>>

\* cycleTargets: the range is over, the deferred tr.mutex.RUnlock() runs
TrCycleEnd ==
    /\ trPc = "cycle"
    /\ trIdx > Len(trTargets)
    /\ trRLocked' = FALSE
    /\ completed' = Append(completed, [list |-> cycleList, sent |-> cycleSent])
    /\ trPc' = "check1"
    /\ UNCHANGED <<trIdx, cycles, cycleList, cycleSent>>
    /\ UNCHANGED <<trTargets, trStop, trWLocked, trWPending, rlTokens, refills,
                   mutPc, mutOp, muts, tpgPc, stopAtCycle>>
    /\ UNCHANGED <<portVars, muxVars, sumVars, procVars, handlerVars, sumStopVars, calcVars, moreVars>>

\* PortGroup.run: pg.mux(addr) returns
TpgMux ==
    /\ tpgPc = "mux"
    /\ tpgPc' = "select"
    /\ UNCHANGED <<runnerOwn, trTargets, trStop, trWLocked, trWPending,
                   rlTokens, refills, mutPc, mutOp, muts, stopAtCycle>>
    /\ UNCHANGED <<portVars, muxVars, sumVars, procVars, handlerVars, sumStopVars, calcVars, moreVars>>

\* PortGroup.run: case <-pg.stop (the TestRunner's stop channel)
TpgStop ==
    /\ tpgPc = "select"
    /\ trStop
    /\ tpgPc' = "exit"
    /\ UNCHANGED <<runnerOwn, trTargets, trStop, trWLocked, trWPending,
                   rlTokens, refills, mutPc, mutOp, muts, stopAtCycle>>
    /\ UNCHANGED <<portVars, muxVars, sumVars, procVars, handlerVars, sumStopVars, calcVars, moreVars>>

\* the nil *net.UDPAddr
NilAddr == 0

\* Add: tr.targets = append(tr.targets, addrs...), for one address
AddTarget(ts, addr) == Append(ts, addr)

\* Del: for i, v := range tr.targets, over the slice as it was at the start
\* (arr, the shared backing array) while tr.targets shrinks to length len:
\* a match is overwritten by the last element, which is set to nil
RECURSIVE DelLoop(_, _, _, _)
DelLoop(arr, len, i, addr) ==
    IF i > Len(arr) THEN SubSeq(arr, 1, len)
    ELSE IF arr[i] = addr
         THEN DelLoop([[arr EXCEPT ![i] = arr[len]] EXCEPT ![len] = NilAddr],
                      len - 1, i + 1, addr)
         ELSE DelLoop(arr, len, i + 1, addr)

DelTarget(ts, addr) == DelLoop(ts, Len(ts), 1, addr)

\* Set: tr.targets = targets
SetTargets(ts, list) == list

SetLists == {<<>>, <<1>>, <<2, 1>>, <<1, 1>>}

ApplyOp(ts, o) ==
    IF o.op = "add" THEN AddTarget(ts, o.addr)
    ELSE IF o.op = "del" THEN DelTarget(ts, o.addr)
    ELSE SetTargets(ts, o.list)

\* Add / Del / Set is called: tr.mutex.Lock() begins and from now on keeps
\* new readers out
MutCall ==
    /\ mutPc = "idle"
    /\ muts < MaxMuts
    /\ \/ \E a \in Addrs : /\ Len(trTargets) < MaxTargets
                           /\ mutOp' = [op |-> "add", addr |-> a, list |-> <<>>]
       \/ \E a \in Addrs : mutOp' = [op |-> "del", addr |-> a, list |-> <<>>]
       \/ \E l \in SetLists : mutOp' = [op |-> "set", addr |-> NilAddr, list |-> l]
    /\ muts' = muts + 1
    /\ mutPc' = "lock"
    /\ trWPending' = TRUE
    /\ UNCHANGED <<runnerOwn, trTargets, trStop, trWLocked, rlTokens, refills,
                   tpgPc, stopAtCycle>>
    /\ UNCHANGED <<portVars, muxVars, sumVars, procVars, handlerVars, sumStopVars, calcVars, moreVars>>

\* a Lock that does not wait for the reader
WriterMayLockAnyway(rlocked) == TRUE

\* tr.mutex.Lock() returns once no reader holds the lock
WriterMayLock(rlocked) == ~rlocked

MutLock ==
    /\ mutPc = "lock"
    /\ WriterMayLock(trRLocked)
    /\ trWLocked' = TRUE
    /\ trWPending' = FALSE
    /\ mutPc' = "held"
    /\ UNCHANGED <<runnerOwn, trTargets, trStop, rlTokens, refills,
                   mutOp, muts, tpgPc, stopAtCycle>>
    /\ UNCHANGED <<portVars, muxVars, sumVars, procVars, handlerVars, sumStopVars, calcVars, moreVars>>

\* Add / Del / Set: the list is changed, tr.mutex.Unlock()
MutApply ==
    /\ mutPc = "held"
    /\ trTargets' = ApplyOp(trTargets, mutOp)
    /\ trWLocked' = FALSE
    /\ mutOp' = NoOp
    /\ mutPc' = "idle"
    /\ UNCHANGED <<runnerOwn, trStop, trWPending, rlTokens, refills,
                   muts, tpgPc, stopAtCycle>>
    /\ UNCHANGED <<portVars, muxVars, sumVars, procVars, handlerVars, sumStopVars, calcVars, moreVars>>

NextRunner ==
    \/ TrStop
    \/ RlRefill
    \/ TrCheck
    \/ TrWait
    \/ TrRLock
    \/ TrSend
    \/ TrCycleEnd
    \/ TpgMux
    \/ TpgStop
    \/ MutCall
    \/ MutLock
    \/ MutApply

SpecRunner == Init /\ [][NextRunner]_vars

\* every task that can take a step eventually takes it; Stop, the stop case
\* of PortGroup.run and calls of the mutators are not forced
FairSpecRunner ==
    /\ Init
    /\ [][NextRunner]_vars
    /\ WF_vars(RlRefill)
    /\ WF_vars(TrCheck)
    /\ WF_vars(TrWait)
    /\ WF_vars(TrRLock)
    /\ WF_vars(TrSend)
    /\ WF_vars(TrCycleEnd)
    /\ WF_vars(TpgMux)
    /\ WF_vars(MutLock)
    /\ WF_vars(MutApply)

(***************************************************************************)
(* Properties of the TestRunner                                            *)
(***************************************************************************)
\* tokens the limiter has handed to rl.Wait
TokensTaken == Burst + refills - rlTokens

\* C13: the limiter never hands out a token it does not have; every cycle
\* begun has taken one token of its own by one wait before it (at most one
\* wait is ahead of the cycles); a cycle sends the addresses of the list it
\* began with in list order, and a completed cycle has sent each once.
CyclesThrottledAndOrdered ==
    /\ rlTokens >= 0
    /\ cycles <= TokensTaken
    /\ TokensTaken <= cycles + 1
    /\ trPc = "cycle" => /\ TokensTaken = cycles
                         /\ cycleSent = SubSeq(cycleList, 1, trIdx - 1)
    /\ \A i \in 1..Len(completed) : completed[i].sent = completed[i].list

\* a second cycle has gone through a list of two different addresses
TwoCyclesCompleted ==
    /\ Len(completed) = 2
    /\ Len(completed[2].sent) = 2
    /\ completed[2].sent[1] # completed[2].sent[2]

\* C14: while a cycle is in progress no mutator holds the lock and the
\* target list is the list the cycle began with.
ListFixedDuringCycle ==
    trPc = "cycle" => /\ trTargets = cycleList
                      /\ mutPc # "held"
                      /\ ~trWLocked

\* a mutator called during a cycle waits while the cycle, part-way through
\* its list, goes on
MutatorWaitsForCycle ==
    /\ trPc = "cycle"
    /\ mutPc = "lock"
    /\ cycleSent # <<>>
    /\ trIdx <= Len(trTargets)

\* C15: after Stop (with a token still to come if run is in the limiter's
\* wait) run eventually returns.
StopLeadsToReturn ==
    (trStop /\ (trPc = "wait" => (rlTokens > 0 \/ refills < MaxRefills)))
        ~> (trPc = "exit")

\* after Stop no further cycle begins
NoCycleAfterStop == trStop => cycles = stopAtCycle

(***************************************************************************)
(* Shutdown of the Summarizer: Stop, the ticker and its channel, and the   *)
(* stop cases of the tick task and the store tasks                         *)
(***************************************************************************)
\* the running ticker puts a tick in its channel, which holds one tick
TickerFire ==
    /\ tickerOn
    /\ ~tickC
    /\ tickC' = TRUE
    /\ UNCHANGED <<sStop, tickerOn, stopTicks>>
    /\ UNCHANGED <<portVars, muxVars, sumVars, procVars, handlerVars, runnerVars, calcVars, moreVars>>

\* waitToSummarize: case <-s.ticker.C: s.summarize() begins
TickRecv ==
    /\ tkPc = "wait"
    /\ tickC
    /\ ticks < MaxTicks
    /\ tickC' = FALSE
    /\ ticks' = ticks + 1
    /\ tkPc' = "lock"
    /\ UNCHANGED <<sumIn, nextRes, sResults, sMutex, sCache, cReaders, cWriter,
                   cPending, stPc, stRes, tkResults, newCache,
                   rdPc, rdView, storedAt, published, cacheSource>>
    /\ UNCHANGED <<sStop, tickerOn, stopTicks>>
    /\ UNCHANGED <<portVars, muxVars, procVars, handlerVars, runnerVars, calcVars, moreVars>>

\* waitToSummarize: case <-s.stop: return
TickExit ==
    /\ tkPc = "wait"
    /\ sStop
    /\ tkPc' = "exit"
    /\ UNCHANGED <<sumIn, nextRes, sResults, sMutex, sCache, cReaders, cWriter,
                   cPending, stPc, stRes, tkResults, newCache, ticks,
                   rdPc, rdView, storedAt, published, cacheSource>>
    /\ UNCHANGED sumStopVars
    /\ UNCHANGED <<portVars, muxVars, procVars, handlerVars, runnerVars, calcVars, moreVars>>

\* store: case <-s.stop: return
StoreExit(t) ==
    /\ stPc[t] = "recv"
    /\ sStop
    /\ stPc' = [stPc EXCEPT ![t] = "exit"]
    /\ UNCHANGED <<sumIn, nextRes, sResults, sMutex, sCache, cReaders, cWriter,
                   cPending, stRes, tkPc, tkResults, newCache, ticks,
                   rdPc, rdView, storedAt, published, cacheSource>>
    /\ UNCHANGED sumStopVars
    /\ UNCHANGED <<portVars, muxVars, procVars, handlerVars, runnerVars, calcVars, moreVars>>

\* Stop: s.ticker.Stop()
TickerAfterStop(on) == FALSE

\* Summarizer.Stop, not yet stopped: s.ticker.Stop(); close(s.stop).
\* Ticker.Stop does not close the channel: a tick already in it stays
\* there, or is discarded, depending on the Go runtime the build uses
SummarizerStop ==
    /\ ~sStop
    /\ tickerOn' = TickerAfterStop(tickerOn)
    /\ tickC' \in {tickC, FALSE}
    /\ sStop' = TRUE
    /\ stopTicks' = ticks
    /\ UNCHANGED <<portVars, muxVars, sumVars, procVars, handlerVars, runnerVars, calcVars, moreVars>>

NextSumStop ==
    \/ SumFeed
    \/ \E t \in Stores : StoreTake(t)
    \/ \E t \in Stores : StoreLock(t)
    \/ \E t \in Stores : StoreAppend(t)
    \/ \E t \in Stores : StoreExit(t)
    \/ TickerFire
    \/ TickRecv
    \/ TickExit
    \/ SumLock
    \/ SumSwap
    \/ SumBuild
    \/ SumCLockRequest
    \/ SumCLockAcquire
    \/ SumPublish
    \/ SummarizerStop

SpecSumStop == Init /\ [][NextSumStop]_vars

\* every task of the Summarizer that can take a step eventually takes it
FairSpecSumStop ==
    /\ Init
    /\ [][NextSumStop]_vars
    /\ \A t \in Stores : WF_vars(StoreLock(t)) /\ WF_vars(StoreAppend(t))
                         /\ WF_vars(StoreExit(t))
    /\ WF_vars(TickExit)
    /\ WF_vars(SumLock) /\ WF_vars(SumSwap) /\ WF_vars(SumBuild)
    /\ WF_vars(SumCLockRequest) /\ WF_vars(SumCLockAcquire) /\ WF_vars(SumPublish)

\* C18: after Summarizer.Stop no further summarize step begins.
NoSummarizeAfterStop ==
    [][sStop => ticks' = ticks]_vars

\* after Stop the ticker is stopped: no new tick enters its channel
TickerStoppedAfterStop ==
    /\ sStop => ~tickerOn
    /\ [][sStop /\ ~tickC => ~tickC']_vars

\* after Stop the tick task and every store task eventually return
TasksReturnAfterStop ==
    sStop ~> (tkPc = "exit" /\ \A t \in Stores : stPc[t] = "exit")

(***************************************************************************)
(* CalcCounts and CalcLoss as functions of a bucket of Results             *)
(***************************************************************************)
\* the Results a bucket can hold: lost, or with a round trip time
CalcResults == {[Lost |-> TRUE, RTT |-> 0],
                [Lost |-> FALSE, RTT |-> 1],
                [Lost |-> FALSE, RTT |-> 2]}

Buckets == UNION {[1..n -> CalcResults] : n \in 0..MaxBucket}

\* float64(a) / float64(b): 0/0 is NaN, a/0 is +Inf
FloatDiv(a, b) ==
    IF b = 0 THEN (IF a = 0 THEN FloatNaN ELSE FloatInf)
    ELSE [kind |-> "num", num |-> a, den |-> b]

\* f * 100.0
FloatTimes100(f) ==
    IF f.kind = "num" THEN [f EXCEPT !.num = f.num * 100] ELSE f

\* a count of the Results that were not lost
CalcCountsOfReceived(rs, summary) ==
    [summary EXCEPT !.Sent = Len(rs),
                    !.Lost = Cardinality({i \in 1..Len(rs) : ~rs[i].Lost})]

\* CalcCounts: summary.Sent = len(results); summary.Lost = those with Lost
CalcCounts(rs, summary) ==
    [summary EXCEPT !.Sent = Len(rs),
                    !.Lost = Cardinality({i \in 1..Len(rs) : rs[i].Lost})]

\* a CalcLoss that returns after setting Loss to 0 for Sent = 0
CalcLossGuarded(summary) ==
    IF summary.Sent = 0
    THEN [summary EXCEPT !.Loss = FloatZero]
    ELSE [summary EXCEPT !.Loss = FloatTimes100(FloatDiv(summary.Lost, summary.Sent))]

\* CalcLoss: Loss is set to 0 when Sent is 0, and then, in every case, to
\* (Lost / Sent) * 100
CalcLoss(summary) ==
    LET zeroed == IF summary.Sent = 0
                  THEN [summary EXCEPT !.Loss = FloatZero]
                  ELSE summary
    IN [zeroed EXCEPT !.Loss = FloatTimes100(FloatDiv(zeroed.Lost, zeroed.Sent))]

\* summarizeSet's calls on a fresh Summary: CalcCounts, then CalcLoss
CalcCall ==
    /\ \E rs \in Buckets :
          /\ cResults' = rs
          /\ cSummary' = CalcLoss(CalcCounts(rs, NoSummary))
    /\ cCalled' = TRUE
    /\ UNCHANGED <<portVars, muxVars, sumVars, procVars, handlerVars,
                   runnerVars, sumStopVars, moreVars>>

NextCalc == CalcCall

SpecCalc == Init /\ [][NextCalc]_vars

EmptyLossIsZero ==
    (cCalled /\ cSummary.Sent = 0) =>
        (cSummary.Loss.kind = "num" /\ cSummary.Loss.num = 0)

RECURSIVE RoundQ(_, _, _)
RoundQ(a, b, e) ==
    IF a = 0 THEN FZero
    ELSE IF a >= b * 2 ^ MantBits THEN RoundQ(a, 2 * b, e + 1)
    ELSE IF a < b * 2 ^ (MantBits - 1) THEN RoundQ(2 * a, b, e - 1)
    ELSE LET q == a \div b
             r == a % b
             m == IF 2 * r > b \/ (2 * r = b /\ q % 2 = 1) THEN q + 1 ELSE q
         IN IF m = 2 ^ MantBits
            THEN [m |-> 2 ^ (MantBits - 1), e |-> e + 1]
            ELSE [m |-> m, e |-> e]

\* float64(r.RTT)
FFromInt(n) == RoundQ(n, 1, 0)

\* x + y
FAdd(x, y) ==
    IF x.m = 0 THEN y
    ELSE IF y.m = 0 THEN x
    ELSE LET lo == IF x.e < y.e THEN x.e ELSE y.e
         IN RoundQ(x.m * 2 ^ (x.e - lo) + y.m * 2 ^ (y.e - lo), 1, lo)

\* x / float64(n)
FDivInt(x, n) == RoundQ(x.m, n, x.e)

\* x < y, for floats that are zero or have a full mantissa
FLess(x, y) ==
    IF y.m = 0 THEN FALSE
    ELSE IF x.m = 0 THEN TRUE
    ELSE x.e < y.e \/ (x.e = y.e /\ x.m < y.m)

FLeq(x, y) == x = y \/ FLess(x, y)

\* math.MaxFloat64
FMaxFloat == [m |-> 2 ^ MantBits - 1, e |-> 2 ^ 10 - MantBits]

\* NsToMs: ns / 1000000.0
NsToMs(x) == RoundQ(x.m, 1000000, x.e)

\* CalcRTT: the values of the Results that are not lost, in milliseconds
RECURSIVE RttValues(_)
RttValues(rs) ==
    IF rs = <<>> THEN <<>>
    ELSE IF Head(rs).Lost THEN RttValues(Tail(rs))
    ELSE <<NsToMs(FFromInt(Head(rs).RTT))>> \o RttValues(Tail(rs))

\* total := 0.0; for _, v := range values { total += v }
RECURSIVE FSum(_, _)
FSum(vs, total) ==
    IF vs = <<>> THEN total ELSE FSum(Tail(vs), FAdd(total, Head(vs)))

\* min := math.MaxFloat64; for ... { if v < min { min = v } }
RECURSIVE FMin(_, _)
FMin(vs, min) ==
    IF vs = <<>> THEN min
    ELSE FMin(Tail(vs), IF FLess(Head(vs), min) THEN Head(vs) ELSE min)

\* max := 0.0; for ... { if v > max { max = v } }
RECURSIVE FMaxOf(_, _)
FMaxOf(vs, max) ==
    IF vs = <<>> THEN max
    ELSE FMaxOf(Tail(vs), IF FLess(max, Head(vs)) THEN Head(vs) ELSE max)

\* CalcRTT
CalcRTT(rs, summary) ==
    IF Len(rs) = 0 THEN summary
    ELSE LET values == RttValues(rs)
         IN IF Len(values) = 0 THEN summary
            ELSE [summary EXCEPT
                    !.RTTAvg = FDivInt(FSum(values, FZero), Len(values)),
                    !.RTTMin = FMin(values, FMaxFloat),
                    !.RTTMax = FMaxOf(values, FZero)]

\* the Results a bucket can hold: lost ones, with or without an RTT value,
\* and received ones with a round trip time in nanoseconds
RttResults == {[Lost |-> TRUE, RTT |-> 0], [Lost |-> TRUE, RTT |-> 3],
               [Lost |-> FALSE, RTT |-> 1], [Lost |-> FALSE, RTT |-> 2],
               [Lost |-> FALSE, RTT |-> 3]}

RttBuckets == UNION {[1..n -> RttResults] : n \in 0..MaxBucket}

\* CalcRTT(results, &Summary{})
CalcRTTCall ==
    /\ \E rs \in RttBuckets :
          /\ rResults' = rs
          /\ rSummary' = CalcRTT(rs, NoRttSummary)
    /\ rCalled' = TRUE
    /\ UNCHANGED exceptRtt

NextRtt == CalcRTTCall

SpecRtt == Init /\ [][NextRtt]_vars

Received(rs) == {i \in 1..Len(rs) : ~rs[i].Lost}

\* C22: with at least one Result that is not lost,
\* RTTMin <= RTTAvg <= RTTMax.
RttAvgBetweenMinAndMax ==
    (rCalled /\ Received(rResults) # {}) =>
        /\ FLeq(rSummary.RTTMin, rSummary.RTTAvg)
        /\ FLeq(rSummary.RTTAvg, rSummary.RTTMax)

\* RTTMin and RTTMax are the least and the greatest of the values of the
\* Results that are not lost; with a single such Result the three fields are
\* equal; with none (an empty bucket, or all lost) they are 0.0
RttMinMaxOfReceived ==
    rCalled =>
        /\ Received(rResults) = {} => rSummary = NoRttSummary
        /\ Cardinality(Received(rResults)) = 1 =>
              /\ rSummary.RTTMin = rSummary.RTTAvg
              /\ rSummary.RTTAvg = rSummary.RTTMax
        /\ \A i \in Received(rResults) :
              /\ FLeq(rSummary.RTTMin, NsToMs(FFromInt(rResults[i].RTT)))
              /\ FLeq(NsToMs(FFromInt(rResults[i].RTT)), rSummary.RTTMax)
        /\ Received(rResults) # {} =>
              \E i, j \in Received(rResults) :
                  /\ rSummary.RTTMin = NsToMs(FFromInt(rResults[i].RTT))
                  /\ rSummary.RTTMax = NsToMs(FFromInt(rResults[j].RTT))

(***************************************************************************)
(* addResult and summarize, one call after the other, on Results whose     *)
(* PathDists differ in every field                                         *)
(***************************************************************************)
GroupIPs == {[addr |-> a, len |-> l] : a \in {2, 3}, l \in {4, 16}}

GroupPds == {[SrcIP |-> IPv4(1), SrcPort |-> 1, DstIP |-> ip, DstPort |-> dp,
              Proto |-> pr] : ip \in GroupIPs, dp \in {1, 2}, pr \in {"udp", "tcp"}}

\* the orders in which range can visit the keys of a map
Orders(S) == {f \in [1..Cardinality(S) -> S] :
                 \A i, j \in 1..Cardinality(S) : i # j => f[i] # f[j]}

\* addResult(result)
GroupAdd ==
    /\ gNext <= MaxGroup
    /\ \E pd \in GroupPds, lost \in BOOLEAN :
          gResults' = MapAppend(gResults, Key(pd),
                                [id |-> gNext, Pd |-> pd, Lost |-> lost])
    /\ gNext' = gNext + 1
    /\ UNCHANGED <<gTaken, gCache, gSteps>>
    /\ UNCHANGED exceptGroup

\* summarize()
GroupSummarize ==
    /\ gSteps < MaxTicks
    /\ gTaken' = gResults
    /\ gResults' = ResetResults(gResults)
    /\ \E order \in Orders(DOMAIN gResults) :
          gCache' = [i \in 1..Len(order) |-> summarizeSet(gResults[order[i]])]
    /\ gSteps' = gSteps + 1
    /\ UNCHANGED gNext
    /\ UNCHANGED exceptGroup

NextGroup == GroupAdd \/ GroupSummarize

SpecGroup == Init /\ [][NextGroup]_vars

\* the Results of a results map, each with the key of its bucket
Stored(res) ==
    UNION {{[key |-> k, r |-> res[k][i]] : i \in 1..Len(res[k])} : k \in DOMAIN res}

SamePair(p, q) == p.SrcIP.addr = q.SrcIP.addr /\ p.DstIP.addr = q.DstIP.addr

\* the Result of bucket rs that was stored first: ids grow with the calls
FirstStored(rs) ==
    CHOOSE i \in 1..Len(rs) : \A j \in 1..Len(rs) : rs[i].id <= rs[j].id

BucketsNeverEmpty ==
    /\ \A k \in DOMAIN sResults : Len(sResults[k]) >= 1
    /\ \A k \in DOMAIN tkResults : Len(tkResults[k]) >= 1

\* summarizeSet has read the first Result of an extracted bucket while the
\* active map already holds a bucket again
FirstReadWhileStoring ==
    /\ tkPc = "build"
    /\ newCache # <<>>
    /\ DOMAIN sResults # {}

(***************************************************************************)
(* TagSets: API.MergeUpdateTagSet and TargetSet.IntoTagSet                 *)
(***************************************************************************)
TagIPs == {"1.2.3.4", "127.0.0.1"}

\* Tags: map[string]string
TagsValues == UNION {[S -> {"bar", "qux"}] : S \in SUBSET {"foo"}}

\* TagSet: map[string]Tags
TagSets == UNION {[S -> TagsValues] : S \in SUBSET TagIPs}

\* TargetSet: []TargetConfig, of which IP and Tags matter here
TargetSets == UNION {[1..n -> [IP : TagIPs, Tags : TagsValues]] : n \in 0..MaxTargets}

\* a merge that replaces the TagSet by the provided one
ReplaceTagSet(a, b) == b

\* MergeUpdateTagSet: for k, v := range t { api.ts[k] = v }
MergeUpdateTagSet(a, b) ==
    [k \in DOMAIN a \cup DOMAIN b |-> IF k \in DOMAIN b THEN b[k] ELSE a[k]]

\* IntoTagSet: for _, target := range ts { tagset[target.IP] = target.Tags }
RECURSIVE IntoTagSet(_, _)
IntoTagSet(ts, tagset) ==
    IF ts = <<>> THEN tagset
    ELSE IntoTagSet(Tail(ts),
                    [k \in DOMAIN tagset \cup {Head(ts).IP} |->
                        IF k = Head(ts).IP THEN Head(ts).Tags ELSE tagset[k]])

\* TargetSet.TagSet
TagSetOf(ts) == IntoTagSet(ts, EmptyTagSet)

\* api.MergeUpdateTagSet(t)
MergeCall ==
    /\ \E b \in TagSets :
          /\ tB' = b
          /\ tA' = MergeUpdateTagSet(tA, b)
    /\ tPrev' = tA
    /\ tTargets' = <<>>
    /\ tOp' = "merge"
    /\ UNCHANGED exceptTags

\* ts.IntoTagSet(tagset)
IntoCall ==
    /\ \E ts \in TargetSets :
          /\ tTargets' = ts
          /\ tB' = TagSetOf(ts)
          /\ tA' = IntoTagSet(ts, tA)
    /\ tPrev' = tA
    /\ tOp' = "into"
    /\ UNCHANGED exceptTags

NextTags == MergeCall \/ IntoCall

SpecTags == Init /\ [][NextTags]_vars

\* C25: after a merge of B into A the keys are those of A united with those
\* of B, a key of B has B's Tags, and a key of A alone has the Tags it had.
MergeIsRightBiasedUnion ==
    tOp # "none" =>
        /\ DOMAIN tA = DOMAIN tPrev \cup DOMAIN tB
        /\ \A k \in DOMAIN tB : tA[k] = tB[k]
        /\ \A k \in DOMAIN tPrev \ DOMAIN tB : tA[k] = tPrev[k]
        /\ tOp = "into" =>
              \A i \in 1..Len(tTargets) : tTargets[i].IP \in DOMAIN tA

\* a merge has overridden the Tags of one key and kept another key of A that
\* B does not have
MergedOverAndKept ==
    /\ tOp = "merge"
    /\ \E k \in DOMAIN tPrev \cap DOMAIN tB : tPrev[k] # tB[k]
    /\ DOMAIN tPrev \ DOMAIN tB # {}

(***************************************************************************)
(* The Collector: Setup, Run and Reload, as main calls them                *)
(***************************************************************************)
\* the target lists a configuration can name
CfgTargets == {<<>>,
               <<[IP |-> "1.2.3.4", Tags |-> [n \in {"foo"} |-> "bar"]]>>,
               <<[IP |-> "127.0.0.1", Tags |-> [n \in {"foo"} |-> "qux"]]>>}

\* the configurations LoadConfig can read: the number of tests, the targets,
\* and whether the targets' addresses resolve
Cfgs == [Tests : 0..MaxTests, Targets : CfgTargets, Resolves : BOOLEAN]

SeqRange(q) == {q[i] : i \in 1..Len(q)}

\* a SetupTestRunners that makes a channel on every call
CbcRemade(ch, made) == made + 1

\* SetupTestRunners: if c.cbc == nil { c.cbc = make(chan *Probe, ...) }
CbcForRunners(ch, made) == IF ch = 0 THEN made + 1 ELSE ch

\* SetupTestRunners: runner.Stop() for every old runner
StopOld(all, runners) ==
    [id \in DOMAIN all |->
        IF id \in SeqRange(runners) THEN [all[id] EXCEPT !.state = "stopped"]
        ELSE all[id]]

\* identities of the runners SetupTestRunners builds for cfg: with a target
\* that does not resolve the first SetupTestRunner ends the process
NewRunners(cfg, all) ==
    IF cfg.Resolves THEN [i \in 1..cfg.Tests |-> Len(all) + i] ELSE <<>>

\* SetupTestRunner: NewTestRunner(c.cbc, rl) for every test
Build(all, new, ch) ==
    [id \in DOMAIN all \cup SeqRange(new) |->
        IF id \in DOMAIN all THEN all[id] ELSE [cbc |-> ch, state |-> "built"]]

\* runner.Run() for every runner of c.runners
RunAll(all, runners) ==
    [id \in DOMAIN all |->
        IF id \in SeqRange(runners) THEN [all[id] EXCEPT !.state = "running"]
        ELSE all[id]]

Events(kind, ids) == [i \in 1..Len(ids) |-> <<kind, ids[i]>>]

\* SetupTestRunners ends the process in log.Fatal
Fatal(cfg) == cfg.Tests > 0 /\ ~cfg.Resolves

\* collector.Setup(): LoadConfig, SetupTagSet, SetupTestRunners,
\* SetupSummarizer, SetupAPI
CollSetup ==
    /\ kPhase = "new"
    /\ \E cfg \in Cfgs :
          LET ch == CbcForRunners(kCbc, kChans)
              new == NewRunners(cfg, kAll)
          IN /\ kCfg' = cfg
             /\ kTs' = TagSetOf(cfg.Targets)
             /\ kCbc' = ch
             /\ kChans' = IF ch = kCbc THEN kChans ELSE kChans + 1
             /\ kRunners' = new
             /\ kAll' = Build(kAll, new, ch)
             /\ kLog' = Events("new", new)
             /\ IF Fatal(cfg)
                THEN /\ kPhase' = "exited"
                     /\ UNCHANGED <<kS, kRh, kApi>>
                ELSE /\ kPhase' = "setup"
                     /\ kS' = [id |-> 1, state |-> "built"]
                     /\ kRh' = [h \in Handlers |->
                                  [id |-> h, cbc |-> ch, state |-> "built"]]
                     /\ kApi' = [id |-> 1, state |-> "built", ts |-> kTs']
    /\ UNCHANGED kReloads
    /\ UNCHANGED exceptColl

\* collector.Run()
CollRun ==
    /\ kPhase = "setup"
    /\ kPhase' = "running"
    /\ kApi' = [kApi EXCEPT !.state = "running"]
    /\ kS' = [kS EXCEPT !.state = "running"]
    /\ kRh' = [h \in DOMAIN kRh |-> [kRh[h] EXCEPT !.state = "running"]]
    /\ kAll' = RunAll(kAll, kRunners)
    /\ kLog' = Events("run", kRunners)
    /\ UNCHANGED <<kCfg, kTs, kCbc, kChans, kRunners, kReloads>>
    /\ UNCHANGED exceptColl

\* collector.Reload(): LoadConfig, SetupTagSet, SetupTestRunners,
\* runner.Run() for the new runners, api.MergeUpdateTagSet(c.ts)
CollReload ==
    /\ kPhase = "running"
    /\ kReloads < MaxReloads
    /\ \E cfg \in Cfgs :
          LET ch == CbcForRunners(kCbc, kChans)
              stopped == StopOld(kAll, kRunners)
              new == NewRunners(cfg, kAll)
              built == Build(stopped, new, ch)
          IN /\ kCfg' = cfg
             /\ kTs' = TagSetOf(cfg.Targets)
             /\ kCbc' = ch
             /\ kChans' = IF ch = kCbc THEN kChans ELSE kChans + 1
             /\ kRunners' = new
             /\ IF Fatal(cfg)
                THEN /\ kPhase' = "exited"
                     /\ kAll' = built
                     /\ kLog' = Events("stop", kRunners)
                     /\ UNCHANGED kApi
                ELSE /\ kPhase' = "running"
                     /\ kAll' = RunAll(built, new)
                     /\ kLog' = Events("stop", kRunners) \o Events("new", new)
                                   \o Events("run", new)
                     /\ kApi' = [kApi EXCEPT
                                   !.ts = MergeUpdateTagSet(kApi.ts, kTs')]
    /\ kReloads' = kReloads + 1
    /\ UNCHANGED <<kS, kRh>>
    /\ UNCHANGED exceptColl

\* a configuration file that cannot be read or parsed: log.Fatal in LoadConfig
CollReloadFails ==
    /\ kPhase = "running"
    /\ kReloads < MaxReloads
    /\ kPhase' = "exited"
    /\ kReloads' = kReloads + 1
    /\ UNCHANGED <<kCfg, kTs, kCbc, kChans, kRunners, kAll, kS, kRh, kApi, kLog>>
    /\ UNCHANGED exceptColl

NextColl == CollSetup \/ CollRun \/ CollReload \/ CollReloadFails

SpecColl == Init /\ [][NextColl]_vars

\* C26: a call of Reload that returns stops every runner there was before it
\* builds a new one, leaves one running runner for every test of the new
\* configuration, all on the callback channel there was, which is also the
\* ResultHandlers'; the Summarizer, the ResultHandlers and the API instance
\* are as they were, only the API's TagSet is merged.
ReloadRebuildsRunnersOnly ==
    [][(kReloads' = kReloads + 1 /\ kPhase' = "running") =>
          /\ \A id \in SeqRange(kRunners) : kAll'[id].state = "stopped"
          /\ \A i, j \in 1..Len(kLog') :
                (kLog'[i][1] = "stop" /\ kLog'[j][1] = "new") => i < j
          /\ {kLog'[i][2] : i \in {j \in 1..Len(kLog') : kLog'[j][1] = "stop"}}
                = SeqRange(kRunners)
          /\ Len(kRunners') = kCfg'.Tests
          /\ SeqRange(kRunners') \cap DOMAIN kAll = {}
          /\ \A id \in SeqRange(kRunners') :
                kAll'[id] = [cbc |-> kCbc, state |-> "running"]
          /\ kCbc' = kCbc
          /\ \A h \in DOMAIN kRh' : kRh'[h].cbc = kCbc' /\ kRh'[h].state = "running"
          /\ kS' = kS /\ kS'.state = "running"
          /\ kRh' = kRh
          /\ kApi'.id = kApi.id /\ kApi'.state = kApi.state
          /\ kApi'.ts = MergeUpdateTagSet(kApi.ts, TagSetOf(kCfg'.Targets))
          /\ kTs' = TagSetOf(kCfg'.Targets)
    ]_vars

\* a second Reload has replaced two runners by two runners
ReloadedTwice ==
    /\ kReloads = 2
    /\ kPhase = "running"
    /\ Len(kRunners) = 2
    /\ Cardinality({id \in DOMAIN kAll : kAll[id].state = "stopped"}) = 4

(***************************************************************************)
(* The Summarizer from NewSummarizer on: Run, the initial Sleep, the       *)
(* ticker, Stop at any time                                                *)
(***************************************************************************)
\* time.Sleep(time.Duration(i - (time.Now().UnixNano() % i)))
SleepUntil(t, i) == t + (i - (t % i))

\* a ticker that ticks as soon as it is made
FirstTickAtOnce(t, i) == t

\* time.NewTicker(s.interval): the first tick comes one interval later
FirstTick(t, i) == t + i

\* a Stop without the case <-s.stop
AlreadyStoppedUnchecked(closed) == FALSE

\* Stop: case <-s.stop is ready
AlreadyStopped(closed) == closed

\* a Stop that skips a ticker that is not there
TickerMissingSkipped(t) == FALSE

\* Stop: s.ticker.Stop() on a nil *time.Ticker
TickerMissing(t) == t = "nil"

LifeClock ==
    /\ ~lPanic
    /\ lNow < MaxLifeTime
    /\ lNow' = lNow + 1
    /\ UNCHANGED <<lStart, lPc, lWake, lTicker, lNextTick, lTickC, lStop,
                   lCloses, lStopCalls, lPanic, lResults, lNextId, lCache,
                   lFirstAt, lFirstCache, lBefore>>
    /\ UNCHANGED exceptLife

\* Run: go s.waitToSummarize(), up to the call of Sleep; go s.store() twice
LifeRun ==
    /\ ~lPanic
    /\ lPc = "idle"
    /\ lStart' = lNow
    /\ lWake' = SleepUntil(lNow, Interval)
    /\ lPc' = "sleep"
    /\ UNCHANGED <<lNow, lTicker, lNextTick, lTickC, lStop,
                   lCloses, lStopCalls, lPanic, lResults, lNextId, lCache,
                   lFirstAt, lFirstCache, lBefore>>
    /\ UNCHANGED exceptLife

\* waitToSummarize: Sleep returns, not before its duration has passed
LifeWake ==
    /\ ~lPanic
    /\ lPc = "sleep"
    /\ lNow >= lWake
    /\ lPc' = "create"
    /\ UNCHANGED <<lNow, lStart, lWake, lTicker, lNextTick, lTickC, lStop,
                   lCloses, lStopCalls, lPanic, lResults, lNextId, lCache,
                   lFirstAt, lFirstCache, lBefore>>
    /\ UNCHANGED exceptLife

\* waitToSummarize: s.ticker = time.NewTicker(s.interval)
LifeCreate ==
    /\ ~lPanic
    /\ lPc = "create"
    /\ lTicker' = "on"
    /\ lNextTick' = FirstTick(lNow, Interval)
    /\ lPc' = "select"
    /\ UNCHANGED <<lNow, lStart, lWake, lTickC, lStop,
                   lCloses, lStopCalls, lPanic, lResults, lNextId, lCache,
                   lFirstAt, lFirstCache, lBefore>>
    /\ UNCHANGED exceptLife

\* the running ticker sends a tick, which is dropped when one is waiting
LifeTickerFire ==
    /\ ~lPanic
    /\ lTicker = "on"
    /\ lNow >= lNextTick
    /\ lTickC' = TRUE
    /\ lNextTick' = lNextTick + Interval
    /\ UNCHANGED <<lNow, lStart, lPc, lWake, lTicker, lStop,
                   lCloses, lStopCalls, lPanic, lResults, lNextId, lCache,
                   lFirstAt, lFirstCache, lBefore>>
    /\ UNCHANGED exceptLife

\* store: case result := <-s.in: s.addResult(result)
LifeStore ==
    /\ ~lPanic
    /\ lStart >= 0
    /\ ~lStop
    /\ lNextId <= MaxStored
    /\ \E pd \in PathDists, lost \in BOOLEAN :
          lResults' = MapAppend(lResults, Key(pd),
                                [id |-> lNextId, Pd |-> pd, Lost |-> lost])
    /\ lBefore' = IF lFirstAt < 0 THEN lBefore \cup {lNextId} ELSE lBefore
    /\ lNextId' = lNextId + 1
    /\ UNCHANGED <<lNow, lStart, lPc, lWake, lTicker, lNextTick, lTickC, lStop,
                   lCloses, lStopCalls, lPanic, lCache, lFirstAt, lFirstCache>>
    /\ UNCHANGED exceptLife

\* waitToSummarize: case <-s.ticker.C: s.summarize()
LifeSummarize ==
    /\ ~lPanic
    /\ lPc = "select"
    /\ lTickC
    /\ lTickC' = FALSE
    /\ lResults' = ResetResults(lResults)
    /\ \E order \in Orders(DOMAIN lResults) :
          lCache' = [i \in 1..Len(order) |-> summarizeSet(lResults[order[i]])]
    /\ lFirstAt' = IF lFirstAt < 0 THEN lNow ELSE lFirstAt
    /\ lFirstCache' = IF lFirstAt < 0 THEN lCache' ELSE lFirstCache
    /\ UNCHANGED <<lNow, lStart, lPc, lWake, lTicker, lNextTick, lStop,
                   lCloses, lStopCalls, lPanic, lNextId, lBefore>>
    /\ UNCHANGED exceptLife

\* waitToSummarize: case <-s.stop: return
LifeExit ==
    /\ ~lPanic
    /\ lPc = "select"
    /\ lStop
    /\ lPc' = "done"
    /\ UNCHANGED <<lNow, lStart, lWake, lTicker, lNextTick, lTickC, lStop,
                   lCloses, lStopCalls, lPanic, lResults, lNextId, lCache,
                   lFirstAt, lFirstCache, lBefore>>
    /\ UNCHANGED exceptLife

\* Stop(): nothing when s.stop is closed; otherwise s.ticker.Stop(), which
\* panics on a nil ticker, then close(s.stop), which panics on a closed channel
LifeStop ==
    /\ ~lPanic
    /\ lStopCalls < MaxStops
    /\ lStopCalls' = lStopCalls + 1
    /\ IF AlreadyStopped(lStop)
       THEN UNCHANGED <<lTicker, lStop, lCloses, lPanic>>
       ELSE IF TickerMissing(lTicker)
       THEN /\ lPanic' = TRUE
            /\ UNCHANGED <<lTicker, lStop, lCloses>>
       ELSE /\ lTicker' = IF lTicker = "nil" THEN "nil" ELSE "stopped"
            /\ lCloses' = lCloses + 1
            /\ lPanic' = lStop
            /\ lStop' = TRUE
    /\ UNCHANGED <<lNow, lStart, lPc, lWake, lNextTick, lTickC,
                   lResults, lNextId, lCache, lFirstAt, lFirstCache, lBefore>>
    /\ UNCHANGED exceptLife

NextLife ==
    \/ LifeClock
    \/ LifeRun
    \/ LifeWake
    \/ LifeCreate
    \/ LifeTickerFire
    \/ LifeStore
    \/ LifeSummarize
    \/ LifeExit
    \/ LifeStop

SpecLife == Init /\ [][NextLife]_vars

\* C27: a call of Stop on a Summarizer whose stop channel is closed changes
\* nothing and does not fail: the channel has been closed exactly once.
SecondStopIsNoOp ==
    [][(lStopCalls' = lStopCalls + 1 /\ lStop) =>
          /\ lStop' /\ lCloses' = 1 /\ lCloses = 1
          /\ ~lPanic'
          /\ lTicker' = lTicker
          /\ lPc' = lPc /\ lResults' = lResults /\ lCache' = lCache
    ]_vars

\* Stop has been called twice and has closed the channel once
StoppedTwice ==
    /\ lStopCalls = 2
    /\ lCloses = 1
    /\ lStop
    /\ ~lPanic

\* C28: a call of Stop made before waitToSummarize has created the ticker
\* fails on the nil ticker and leaves the stop channel open.
StopBeforeTickerFails ==
    [][(lStopCalls' = lStopCalls + 1 /\ lTicker = "nil") =>
          /\ lPanic'
          /\ ~lStop'
          /\ lCloses' = 0
    ]_vars

\* Stop has failed while waitToSummarize was in its initial Sleep
StopFailedDuringSleep ==
    /\ lPanic
    /\ lPc = "sleep"
    /\ ~lStop

\* C29: the first summarize step comes no earlier than one interval after
\* the start of waitToSummarize, and the Cache it publishes counts every
\* Result stored before it.
FirstSummaryAfterFullInterval ==
    lFirstAt >= 0 =>
        /\ lFirstAt >= lStart + Interval
        /\ \A id \in lBefore :
              \E i \in 1..Len(lFirstCache) : id \in lFirstCache[i].counted
        /\ \A i \in 1..Len(lFirstCache) : lFirstCache[i].counted \subseteq lBefore

\* the first summarize step has published two Results stored before it, one
\* of them during the initial Sleep
FirstSummaryOfTwo ==
    /\ lFirstAt >= 0
    /\ Cardinality(lBefore) = 2
    /\ lFirstCache # <<>>

(***************************************************************************)
(* The reflector: Reflect on one socket                                    *)
(***************************************************************************)
\* a datagram: whether pb.Probe.Unmarshal accepts it, and the signature and
\* the Tos bytes the decoded Probe then has
Datagrams == [ok : BOOLEAN, sig : {1, 2}, Tos : {<<>>, <<0>>, <<1>>}]

Senders == {1, 2}

\* a probe as Port.send emits it: it decodes and has exactly one Tos byte
WellFormed(d) == d.ok /\ Len(d.Tos) = 1

\* a Reflect that never touches the socket's ToS
TosLeftAlone(cur, probeTos) == FALSE

\* Reflect: if tos != pbProbe.Tos[0]
TosDiffers(cur, probeTos) == cur # probeTos

\* rl.Reserve(), and the Sleep of its delay
ReflReserve ==
    /\ fPc = "reserve"
    /\ fPc' = "receive"
    /\ UNCHANGED <<fTos, fSockTos, fData, fAddr, fRecvd, fSent>>
    /\ UNCHANGED exceptRefl

\* data, _, addr := Receive(dataBuf, oobBuf, conn)
ReflReceive ==
    /\ fPc = "receive"
    /\ Len(fRecvd) < MaxDatagrams
    /\ \E d \in Datagrams, a \in Senders :
          /\ fData' = d
          /\ fAddr' = a
          /\ fRecvd' = Append(fRecvd, [data |-> d, addr |-> a])
    /\ fPc' = "decode"
    /\ UNCHANGED <<fTos, fSockTos, fSent>>
    /\ UNCHANGED exceptRefl

\* pbProbe.Unmarshal(data); continue on an error; pbProbe.Tos[0], which panics
\* on a Probe without Tos bytes; SetTos when the value differs
ReflDecode ==
    /\ fPc = "decode"
    /\ IF ~fData.ok
       THEN /\ fPc' = "reserve"
            /\ UNCHANGED <<fTos, fSockTos>>
       ELSE IF fData.Tos = <<>>
       THEN /\ fPc' = "panic"
            /\ UNCHANGED <<fTos, fSockTos>>
       ELSE IF TosDiffers(fTos, fData.Tos[1])
       THEN \/ /\ fSockTos' = fData.Tos[1]
               /\ fTos' = fData.Tos[1]
               /\ fPc' = "send"
            \/ /\ fPc' = "exited"
               /\ UNCHANGED <<fTos, fSockTos>>
       ELSE /\ fPc' = "send"
            /\ UNCHANGED <<fTos, fSockTos>>
    /\ UNCHANGED <<fData, fAddr, fRecvd, fSent>>
    /\ UNCHANGED exceptRefl

\* Send(data, conn, addr): the datagram leaves with the socket's ToS, or
\* WriteToUDP fails and HandleError ends the process
ReflSend ==
    /\ fPc = "send"
    /\ \/ /\ fSent' = Append(fSent, [data |-> fData, addr |-> fAddr,
                                     tos |-> fSockTos])
          /\ fPc' = "reserve"
       \/ /\ fPc' = "exited"
          /\ UNCHANGED fSent
    /\ UNCHANGED <<fTos, fSockTos, fData, fAddr, fRecvd>>
    /\ UNCHANGED exceptRefl

NextRefl == ReflReserve \/ ReflReceive \/ ReflDecode \/ ReflSend

SpecRefl == Init /\ [][NextRefl]_vars

\* the well-formed probes among the datagrams received
RECURSIVE WellFormedOf(_)
WellFormedOf(q) ==
    IF q = <<>> THEN <<>>
    ELSE IF WellFormed(Head(q).data) THEN <<Head(q)>> \o WellFormedOf(Tail(q))
    ELSE WellFormedOf(Tail(q))

\* C30: the datagrams sent are, in order, the well-formed probes received:
\* each goes to its sender with exactly the bytes received and leaves with
\* the ToS its probe carries; between two iterations none is outstanding.
EchoesAreProbesWithTheirTos ==
    LET wf == WellFormedOf(fRecvd)
    IN /\ Len(fSent) <= Len(wf)
       /\ \A i \in 1..Len(fSent) :
             /\ fSent[i].data = wf[i].data
             /\ fSent[i].addr = wf[i].addr
             /\ fSent[i].tos = wf[i].data.Tos[1]
       /\ fPc \in {"reserve", "receive"} => Len(fSent) = Len(wf)
       /\ fPc \in {"reserve", "receive", "send"} => fSockTos = fTos

\* three probes echoed, the second and the third with a ToS other than the
\* one before
EchoedWithChangingTos ==
    /\ Len(fSent) = 3
    /\ fSent[1].tos # fSent[2].tos
    /\ fSent[2].tos # fSent[3].tos

(***************************************************************************)
(* Port.recv given datagrams that may not decode                           *)
(***************************************************************************)
\* a datagram as recv sees it: whether pb.Probe.Unmarshal returns no error,
\* and the Signature the Probe holds afterwards; a datagram cut short after
\* the signature field leaves the signature decoded and returns an error
PortDatagrams == [ok : BOOLEAN, sig : Sigs \cup {NoSig}]

\* recv: HandleMinorError(err); id := string(udpData.Signature[:])
SignatureRead(d) == d.sig

DecClock ==
    /\ dNow < MaxTime
    /\ dNow' = dNow + 1
    /\ UNCHANGED <<dItems, dNext, dLast, dStamped, dDelivered>>
    /\ UNCHANGED exceptDec

\* send: p.cache.SetDefault(key, &probe), WriteToUDP
DecSend ==
    /\ dNext <= MaxProbes
    /\ dItems' = SendCacheInsert(dItems, dNext, dNow)
    /\ dNext' = dNext + 1
    /\ UNCHANGED <<dNow, dLast, dStamped, dDelivered>>
    /\ UNCHANGED exceptDec

\* recv: one datagram read, from Unmarshal to Replace
DecRecv ==
    /\ \E d \in PortDatagrams :
          LET id == SignatureRead(d)
              found == RecvLookup(dItems, id, dNow)
              after == IF found THEN RecvUpdate(dItems, id, dNow) ELSE dItems
          IN /\ dItems' = after
             /\ dStamped' = IF found
                            THEN dStamped \cup {[key |-> id, ok |-> d.ok]}
                            ELSE dStamped
             /\ dLast' = [d |-> d, before |-> dItems, after |-> after]
    /\ UNCHANGED <<dNow, dNext, dDelivered>>
    /\ UNCHANGED exceptDec

\* the cache's cleaner: every expired entry is removed and handed to
\* Port.done, which sends the probe on cbc
DecSweep ==
    /\ ExpiredKeys(dItems, dNow) # {}
    /\ dItems' = [k \in DOMAIN dItems \ ExpiredKeys(dItems, dNow) |-> dItems[k]]
    /\ dDelivered' = dDelivered \cup
          {[key |-> k, rcvd |-> \E s \in dStamped : s.key = k] :
              k \in ExpiredKeys(dItems, dNow)}
    /\ UNCHANGED <<dNow, dNext, dLast, dStamped>>
    /\ UNCHANGED exceptDec

NextDec == DecClock \/ DecSend \/ DecRecv \/ DecSweep

SpecDec == Init /\ [][NextDec]_vars

\* C31: a datagram that does not decode leaves the Port's cache as it was,
\* and no probe is stamped or delivered as received because of it.
UndecodableIsDropped ==
    /\ ~dLast.d.ok => dLast.after = dLast.before
    /\ \A s \in dStamped : s.ok
    /\ \A x \in dDelivered :
          x.rcvd => \E s \in dStamped : s.key = x.key /\ s.ok

\* a datagram that decodes and matches nothing, and one that does not
\* decode and carries no signature, change nothing
UnmatchedLeavesCache ==
    (dLast.d.sig = NoSig) => dLast.after = dLast.before

\* number of occurrences of a in the list ts
Occurrences(ts, a) == Cardinality({i \in 1..Len(ts) : ts[i] = a})

\* C32: a call of Del(addr) leaves a list without addr in which every other
\* target occurs as often as before.
DelRemovesEveryOccurrence ==
    [][(mutPc = "held" /\ mutOp.op = "del" /\ mutPc' = "idle") =>
          /\ Occurrences(trTargets', mutOp.addr) = 0
          /\ \A a \in Addrs \ {mutOp.addr} :
                Occurrences(trTargets', a) = Occurrences(trTargets, a)
    ]_vars

\* Del keeps every other target as often as it was there, and removes the
\* address when it occurs once
DelKeepsOthers ==
    [][(mutPc = "held" /\ mutOp.op = "del" /\ mutPc' = "idle") =>
          /\ Occurrences(trTargets, mutOp.addr) <= 1 =>
                Occurrences(trTargets', mutOp.addr) = 0
          /\ \A a \in Addrs \ {mutOp.addr} :
                Occurrences(trTargets', a) = Occurrences(trTargets, a)
    ]_vars


(***************************************************************************)
(* PortGroup.mux and a Port that is not ready                              *)
(***************************************************************************)
\* the Port the loop of mux is at has a full input channel
AtFullChannel == pgPc = "mux" /\ Len(chans[muxCur]) = TosendCap

\* C33: mux avoids blocking: a Port whose channel is not ready is skipped,
\* so that during a mux call the loop can always take its next step, and a
\* Port with a full channel does not hold up the Ports after it.
MuxNeverWaits == pgPc = "mux" => ENABLED (\E p \in Ports : MuxPut(p))

\* mux waits at a Port with a full channel while another Port, whose channel
\* has room, has not been given the address
OtherPortHeldUp ==
    /\ AtFullChannel
    /\ \E q \in muxLeft \ {muxCur} : Len(chans[q]) < TosendCap
    /\ ~ ENABLED (\E p \in Ports : MuxPut(p))


\* the tasks of SpecMux are all scheduled: run and mux, and each Port's send
\* loop, take a step that stays possible
FairSpecMux ==
    /\ SpecMux
    /\ WF_vars(PgStop)
    /\ WF_vars(\E p \in Ports : MuxPut(p))
    /\ \A p \in Ports : WF_vars(MuxPortTake(p)) /\ WF_vars(MuxPortStop(p))

\* C34: once stop is closed, PortGroup.run eventually returns and has
\* released its port set, also when the close comes during a mux call or
\* while the input channel of some Port is full.
StopEndsRun == stop ~> (pgPc = "exit" /\ pgPorts = {})

\* stop is closed, the send loop of the Port mux is at has returned, and its
\* channel is full: no step of any task lets mux go on
MuxStuckAfterStop ==
    /\ stop
    /\ AtFullChannel
    /\ muxCur \notin sending


(***************************************************************************)
(* The stop channels: Collector.Stop, Collector.Reload, TestRunner.Stop,   *)
(* PortGroup.Stop and ResultHandler.Stop, called in any order              *)
(***************************************************************************)
\* stop := make(chan bool) of NewTestRunner, shared with its PortGroup, and
\* of NewResultHandler
RunnerStop(r) == <<"tr", r>>
HandlerStop(h) == <<"rh", h>>

\* close(ch) for each channel of the sequence chs in turn; closing a closed
\* channel panics and the calls after it are not made
RECURSIVE CloseEach(_, _)
CloseEach(closed, chs) ==
    IF chs = <<>> THEN [closed |-> closed, panic |-> FALSE]
    ELSE IF Head(chs) \in closed THEN [closed |-> closed, panic |-> TRUE]
    ELSE CloseEach(closed \cup {Head(chs)}, Tail(chs))

RunnerStops(rs) == [i \in 1..Len(rs) |-> RunnerStop(rs[i])]
HandlerStops == [h \in 1..NumHandlers |-> HandlerStop(h)]

\* tr.pg = nil in the runners whose channel this call has closed
Released(stopped, closed) ==
    {r \in stopped : RunnerStop(r) \in closed \ xClosed}

\* TestRunner.Stop of any TestRunner ever made: close(tr.stop); tr.pg = nil
ClsRunnerStop(r) ==
    /\ ~ xPanic
    /\ r \in 1..xMade
    /\ LET c == CloseEach(xClosed, <<RunnerStop(r)>>) IN
          /\ xClosed' = c.closed
          /\ xPanic' = c.panic
          /\ xPg' = IF c.panic THEN xPg ELSE xPg \ {r}
    /\ UNCHANGED <<xRunners, xMade>>
    /\ UNCHANGED exceptCls

\* PortGroup.Stop of the PortGroup of a TestRunner: close(pg.stop)
ClsPortGroupStop(r) ==
    /\ ~ xPanic
    /\ r \in 1..xMade
    /\ LET c == CloseEach(xClosed, <<RunnerStop(r)>>) IN
          /\ xClosed' = c.closed
          /\ xPanic' = c.panic
    /\ UNCHANGED <<xRunners, xMade, xPg>>
    /\ UNCHANGED exceptCls

\* ResultHandler.Stop: close(rh.stop)
ClsHandlerStop(h) ==
    /\ ~ xPanic
    /\ LET c == CloseEach(xClosed, <<HandlerStop(h)>>) IN
          /\ xClosed' = c.closed
          /\ xPanic' = c.panic
    /\ UNCHANGED <<xRunners, xMade, xPg>>
    /\ UNCHANGED exceptCls

\* Collector.Stop: runner.Stop() for each of c.runners, then rh.Stop() for
\* each of c.rh (Summarizer.Stop guards its own channel)
ClsCollectorStop ==
    /\ ~ xPanic
    /\ LET c == CloseEach(xClosed, RunnerStops(xRunners) \o HandlerStops)
           stopped == {xRunners[i] : i \in 1..Len(xRunners)} IN
          /\ xClosed' = c.closed
          /\ xPanic' = c.panic
          /\ xPg' = xPg \ Released(stopped, c.closed)
    /\ UNCHANGED <<xRunners, xMade>>
    /\ UNCHANGED exceptCls

\* Collector.Reload with a configuration of nt tests: SetupTestRunners stops
\* the old runners, clears the slice and makes the new ones
ClsReload(nt) ==
    /\ ~ xPanic
    /\ xMade + nt <= MaxMade
    /\ LET c == CloseEach(xClosed, RunnerStops(xRunners))
           stopped == {xRunners[i] : i \in 1..Len(xRunners)} IN
          /\ xClosed' = c.closed
          /\ xPanic' = c.panic
          /\ IF c.panic
             THEN /\ xPg' = xPg \ Released(stopped, c.closed)
                  /\ UNCHANGED <<xRunners, xMade>>
             ELSE /\ xRunners' = [i \in 1..nt |-> xMade + i]
                  /\ xMade' = xMade + nt
                  /\ xPg' = (xPg \ stopped) \cup ((xMade + 1)..(xMade + nt))
    /\ UNCHANGED exceptCls

NextCls ==
    \/ \E r \in 1..MaxMade : ClsRunnerStop(r)
    \/ \E r \in 1..MaxMade : ClsPortGroupStop(r)
    \/ \E h \in Handlers : ClsHandlerStop(h)
    \/ ClsCollectorStop
    \/ \E nt \in 0..MaxTests : ClsReload(nt)

SpecCls == Init /\ [][NextCls]_vars

\* C35: no order of the public Stop and Reload calls closes a stop channel
\* that is closed already.
NoChannelClosedTwice == ~ xPanic

\* the runners made are those of the slice and those stopped by a reload
ClsMadeBounded == xMade <= MaxMade /\ \A i \in 1..Len(xRunners) : xRunners[i] <= xMade


(***************************************************************************)
(* The eviction callback of a Port and the ResultHandlers                  *)
(***************************************************************************)
\* the cache evicts an entry and calls Port.done with the probe
EvCall ==
    /\ ePc = "idle"
    /\ hNext <= MaxFed
    /\ ePc' = "send"
    /\ UNCHANGED exceptEv

\* Port.done: p.cbc <- probe, which waits while the channel is full
EvSend ==
    /\ ePc = "send"
    /\ Len(hCbc) < CbcCap
    /\ \E rcvd \in {0, 2} :
          hCbc' = Append(hCbc, [id |-> hNext,
                                probe |-> [Pd |-> 1, CSent |-> 1, CRcvd |-> rcvd]])
    /\ hNext' = hNext + 1
    /\ ePc' = "idle"
    /\ UNCHANGED <<hOut, hPc, hResult, hStop, hTook, hRecvd>>
    /\ UNCHANGED <<portVars, muxVars, sumVars, procVars, runnerVars,
                   sumStopVars, calcVars, rttVars, groupVars, tagVars,
                   collVars, lifeVars, reflVars, decVars, clsVars, lkVars,
                   rlVars>>

NextEv ==
    \/ EvCall
    \/ EvSend
    \/ \E h \in Handlers : HTake(h)
    \/ \E h \in Handlers : HEmit(h)
    \/ \E h \in Handlers : HStop(h)
    \/ \E h \in Handlers : HExit(h)
    \/ HOutRecv

SpecEv == Init /\ [][NextEv]_vars

\* the callback, the handlers and the Summarizer's receive are all scheduled
FairSpecEv ==
    /\ SpecEv
    /\ WF_vars(EvSend)
    /\ WF_vars(HOutRecv)
    /\ \A h \in Handlers :
          WF_vars(HTake(h)) /\ WF_vars(HEmit(h)) /\ WF_vars(HExit(h))

\* C36: the eviction callback never blocks for ever: the send of an evicted
\* probe on the callback channel always completes, also when the channel is
\* full or the ResultHandlers have been stopped.
EvictionCompletes == (ePc = "send") ~> (ePc = "idle")

\* the callback waits on a full channel whose handlers have all returned
EvictionStuck ==
    /\ ePc = "send"
    /\ Len(hCbc) = CbcCap
    /\ \A h \in Handlers : hPc[h] = "exit"


\* C37: a call of Add, Del or Set always eventually returns, also after
\* TestRunner.Stop and while the PortGroup no longer takes addresses.
MutatorReturns == (mutPc = "lock") ~> (mutPc = "idle")

\* a mutator waits for the lock while run, inside a cycle, holds the shared
\* lock and waits to send to a PortGroup that has returned
MutatorBehindStuckCycle ==
    /\ mutPc = "lock"
    /\ trRLocked
    /\ trPc = "cycle" /\ trIdx <= Len(trTargets)
    /\ tpgPc = "exit"


(***************************************************************************)
(* ResultHandler.run after ResultHandler.Stop                              *)
(***************************************************************************)
\* each run task is scheduled; the Ports that feed the callback channel and
\* the Summarizer that drains the results channel need not take a step
FairSpecHandlers ==
    /\ SpecHandlers
    /\ \A h \in Handlers :
          WF_vars(HTake(h)) /\ WF_vars(HEmit(h)) /\ WF_vars(HExit(h))

\* C38: after ResultHandler.Stop the run task eventually returns, whether it
\* waits for a probe or waits to hand a Result to a full results channel; a
\* task that has returned takes no further step, so the Result it had in
\* hand is not on the results channel and is never put there.
StoppedHandlerReturns ==
    /\ \A h \in Handlers : hStop[h] ~> (hPc[h] = "exit")
    /\ [](\A h \in Handlers :
            (hPc[h] = "exit" /\ hResult[h] # NoHandled)
                => EmittedFor(hResult[h].id) = 0)
    /\ [][\A h \in Handlers :
            hPc[h] = "exit" => hPc'[h] = "exit" /\ hResult'[h] = hResult[h]]_vars

\* one handler returned with a Result in hand while the results channel was
\* full, the other returned while waiting for a probe
ReturnedFromBothSelects ==
    /\ Len(hOut) = ResultsCap
    /\ hCbc = <<>>
    /\ \E h \in Handlers : hPc[h] = "exit" /\ hResult[h] # NoHandled
    /\ \E h \in Handlers : hPc[h] = "exit" /\ hResult[h] = NoHandled


(***************************************************************************)
(* The two locks of the API: InfluxHandler reads under CMutex.RLock and    *)
(* API.mutex.RLock, summarize publishes under CMutex.Lock,                 *)
(* MergeUpdateTagSet copies under API.mutex.Lock                           *)
(***************************************************************************)
\* a Lock that lets a reader in whatever the writer does
ReadLockIgnored(writer, pending) == TRUE

\* sync.RWMutex.RLock returns when no writer holds the lock or waits for it
ReadLockFree(writer, pending) == ~writer /\ ~pending

\* sync.RWMutex.Lock returns when no reader and no writer holds the lock
WriteLockFree(readers, writer) == readers = {} /\ ~writer

\* an HTTP request arrives and InfluxHandler is called
YRequest(r) ==
    /\ yPc[r] = "idle"
    /\ yPc' = [yPc EXCEPT ![r] = "rlockC"]
    /\ UNCHANGED <<ySnap, yGot, yCache, yTs, yCR, yCW, yCPend, yTR, yTW, yTPend,
                   ySumPc, yPublished, yMergePc, yMerged, yMergeLeft>>
    /\ UNCHANGED exceptLk

\* api.summarizer.CMutex.RLock()
YRLockC(r) ==
    /\ yPc[r] = "rlockC"
    /\ ReadLockFree(yCW, yCPend)
    /\ yCR' = yCR \cup {r}
    /\ yPc' = [yPc EXCEPT ![r] = "cache"]
    /\ UNCHANGED <<ySnap, yGot, yCache, yTs, yCW, yCPend, yTR, yTW, yTPend,
                   ySumPc, yPublished, yMergePc, yMerged, yMergeLeft>>
    /\ UNCHANGED exceptLk

\* summaries := api.summarizer.Cache
YReadCache(r) ==
    /\ yPc[r] = "cache"
    /\ ySnap' = [ySnap EXCEPT ![r] = yCache]
    /\ yPc' = [yPc EXCEPT ![r] = "rlockT"]
    /\ UNCHANGED <<yGot, yCache, yTs, yCR, yCW, yCPend, yTR, yTW, yTPend,
                   ySumPc, yPublished, yMergePc, yMerged, yMergeLeft>>
    /\ UNCHANGED exceptLk

\* api.mutex.RLock()
YRLockT(r) ==
    /\ yPc[r] = "rlockT"
    /\ ReadLockFree(yTW, yTPend)
    /\ yTR' = yTR \cup {r}
    /\ yGot' = [yGot EXCEPT ![r] = NoTags]
    /\ yPc' = [yPc EXCEPT ![r] = "lookup1"]
    /\ UNCHANGED <<ySnap, yCache, yTs, yCR, yCW, yCPend, yTW, yTPend,
                   ySumPc, yPublished, yMergePc, yMerged, yMergeLeft>>
    /\ UNCHANGED exceptLk

\* NewFromSummaries: dstTags := t[...] for the summary of key k, the first
\* summary of the slice and then the second
YLookup(r, k) ==
    /\ yPc[r] = (IF k = 1 THEN "lookup1" ELSE "lookup2")
    /\ yGot' = [yGot EXCEPT ![r][k] = yTs[k]]
    /\ yPc' = [yPc EXCEPT ![r] = IF k = 1 THEN "lookup2" ELSE "runlockT"]
    /\ UNCHANGED <<ySnap, yCache, yTs, yCR, yCW, yCPend, yTR, yTW, yTPend,
                   ySumPc, yPublished, yMergePc, yMerged, yMergeLeft>>
    /\ UNCHANGED exceptLk

\* api.mutex.RUnlock()
YRUnlockT(r) ==
    /\ yPc[r] = "runlockT"
    /\ yTR' = yTR \ {r}
    /\ yPc' = [yPc EXCEPT ![r] = "runlockC"]
    /\ UNCHANGED <<ySnap, yGot, yCache, yTs, yCR, yCW, yCPend, yTW, yTPend,
                   ySumPc, yPublished, yMergePc, yMerged, yMergeLeft>>
    /\ UNCHANGED exceptLk

\* api.summarizer.CMutex.RUnlock(); the response is written
YRUnlockC(r) ==
    /\ yPc[r] = "runlockC"
    /\ yCR' = yCR \ {r}
    /\ yPc' = [yPc EXCEPT ![r] = "idle"]
    /\ UNCHANGED <<ySnap, yGot, yCache, yTs, yCW, yCPend, yTR, yTW, yTPend,
                   ySumPc, yPublished, yMergePc, yMerged, yMergeLeft>>
    /\ UNCHANGED exceptLk

\* summarize has built newCache: s.CMutex.Lock() begins
YSumCall ==
    /\ ySumPc = "idle"
    /\ yPublished < MaxPublish
    /\ yPublished' = yPublished + 1
    /\ yCPend' = TRUE
    /\ ySumPc' = "lock"
    /\ UNCHANGED <<yPc, ySnap, yGot, yCache, yTs, yCR, yCW, yTR, yTW, yTPend,
                   yMergePc, yMerged, yMergeLeft>>
    /\ UNCHANGED exceptLk

\* s.CMutex.Lock() returns
YSumLock ==
    /\ ySumPc = "lock"
    /\ WriteLockFree(yCR, yCW)
    /\ yCW' = TRUE
    /\ yCPend' = FALSE
    /\ ySumPc' = "ptr"
    /\ UNCHANGED <<yPc, ySnap, yGot, yCache, yTs, yCR, yTR, yTW, yTPend,
                   yPublished, yMergePc, yMerged, yMergeLeft>>
    /\ UNCHANGED exceptLk

\* s.Cache = newCache: the words of the slice header are stored one by one
YSumStorePtr ==
    /\ ySumPc = "ptr"
    /\ yCache' = [yCache EXCEPT !.ptr = yPublished]
    /\ ySumPc' = "len"
    /\ UNCHANGED <<yPc, ySnap, yGot, yTs, yCR, yCW, yCPend, yTR, yTW, yTPend,
                   yPublished, yMergePc, yMerged, yMergeLeft>>
    /\ UNCHANGED exceptLk

\* the rest of s.Cache = newCache; s.CMutex.Unlock()
YSumStoreLen ==
    /\ ySumPc = "len"
    /\ yCache' = [yCache EXCEPT !.len = yPublished]
    /\ yCW' = FALSE
    /\ ySumPc' = "idle"
    /\ UNCHANGED <<yPc, ySnap, yGot, yTs, yCR, yCPend, yTR, yTW, yTPend,
                   yPublished, yMergePc, yMerged, yMergeLeft>>
    /\ UNCHANGED exceptLk

\* Collector.Reload calls MergeUpdateTagSet: api.mutex.Lock() begins
YMergeCall ==
    /\ yMergePc = "idle"
    /\ yMerged < MaxMerges
    /\ yMerged' = yMerged + 1
    /\ yTPend' = TRUE
    /\ yMergePc' = "lock"
    /\ UNCHANGED <<yPc, ySnap, yGot, yCache, yTs, yCR, yCW, yCPend, yTR, yTW,
                   ySumPc, yPublished, yMergeLeft>>
    /\ UNCHANGED exceptLk

\* api.mutex.Lock() returns
YMergeLock ==
    /\ yMergePc = "lock"
    /\ WriteLockFree(yTR, yTW)
    /\ yTW' = TRUE
    /\ yTPend' = FALSE
    /\ yMergeLeft' = TagKeys
    /\ yMergePc' = "copy"
    /\ UNCHANGED <<yPc, ySnap, yGot, yCache, yTs, yCR, yCW, yCPend, yTR,
                   ySumPc, yPublished, yMerged>>
    /\ UNCHANGED exceptLk

\* for k, v := range t { api.ts[k] = v }: one key, in the order of the map
YMergeCopy(k) ==
    /\ yMergePc = "copy"
    /\ k \in yMergeLeft
    /\ yTs' = [yTs EXCEPT ![k] = yMerged]
    /\ yMergeLeft' = yMergeLeft \ {k}
    /\ UNCHANGED <<yPc, ySnap, yGot, yCache, yCR, yCW, yCPend, yTR, yTW, yTPend,
                   ySumPc, yPublished, yMergePc, yMerged>>
    /\ UNCHANGED exceptLk

\* api.mutex.Unlock()
YMergeUnlock ==
    /\ yMergePc = "copy"
    /\ yMergeLeft = {}
    /\ yTW' = FALSE
    /\ yMergePc' = "idle"
    /\ UNCHANGED <<yPc, ySnap, yGot, yCache, yTs, yCR, yCW, yCPend, yTR, yTPend,
                   ySumPc, yPublished, yMerged, yMergeLeft>>
    /\ UNCHANGED exceptLk


NextLk ==
    \/ \E r \in Requests : YRequest(r)
    \/ \E r \in Requests : YRLockC(r)
    \/ \E r \in Requests : YReadCache(r)
    \/ \E r \in Requests : YRLockT(r)
    \/ \E r \in Requests : \E k \in TagKeys : YLookup(r, k)
    \/ \E r \in Requests : YRUnlockT(r)
    \/ \E r \in Requests : YRUnlockC(r)
    \/ YSumCall
    \/ YSumLock
    \/ YSumStorePtr
    \/ YSumStoreLen
    \/ YMergeCall
    \/ YMergeLock
    \/ \E k \in TagKeys : YMergeCopy(k)
    \/ YMergeUnlock

SpecLk == Init /\ [][NextLk]_vars

\* every task that can take a step eventually takes it; the arrival of a
\* request, of a tick and of a reload is not forced
FairSpecLk ==
    /\ SpecLk
    /\ \A r \in Requests :
          /\ WF_vars(YRLockC(r)) /\ WF_vars(YReadCache(r)) /\ WF_vars(YRLockT(r))
          /\ WF_vars(\E k \in TagKeys : YLookup(r, k))
          /\ WF_vars(YRUnlockT(r)) /\ WF_vars(YRUnlockC(r))
    /\ WF_vars(YSumLock) /\ WF_vars(YSumStorePtr) /\ WF_vars(YSumStoreLen)
    /\ WF_vars(YMergeLock) /\ WF_vars(\E k \in TagKeys : YMergeCopy(k))
    /\ WF_vars(YMergeUnlock)

\* the request has built its data points
Built(r) == yPc[r] \in {"runlockT", "runlockC"}

\* C39: InfluxHandler, the cache publication of summarize and
\* MergeUpdateTagSet never deadlock: each of them, once begun, completes; and
\* a request builds its data points from one published slice (a header whose
\* words belong to the same cache) and from one state of the TagSet (entries
\* of the same merge).
TwoLocksCompleteAndReadWhole ==
    /\ \A r \in Requests : (yPc[r] # "idle") ~> (yPc[r] = "idle")
    /\ (ySumPc # "idle") ~> (ySumPc = "idle")
    /\ (yMergePc # "idle") ~> (yMergePc = "idle")
    /\ [](\A r \in Requests :
            Built(r) => /\ ySnap[r].ptr = ySnap[r].len
                        /\ yGot[r][1] = yGot[r][2])

\* a request has built its data points from a published cache and a merged
\* TagSet while summarize waits for CMutex and MergeUpdateTagSet waits for
\* API.mutex
BuiltWhileBothWritersWait ==
    /\ \E r \in Requests : Built(r) /\ ySnap[r].ptr = 1 /\ yGot[r][1] = 1
    /\ ySumPc = "lock"
    /\ yMergePc = "lock"


(***************************************************************************)
(* createRateLimiter and the rate-limit wait of TestRunner.run             *)
(***************************************************************************)
\* int(rlConfig.CPS): the conversion of a positive float64 drops the fraction
IntOfCps(n) == n \div CpsDenom

\* rl.Wait(ctx) asks for one token: it fails at once when one token is more
\* than the burst of a limiter whose limit is finite
WaitFails(burst) == 1 > burst

\* createRateLimiter: rate.NewLimiter(rate.Limit(cps), int(cps)), the bucket
\* starting full; TestRunner.Run
ZCreate(n) ==
    /\ zPc = "config"
    /\ zCps' = n
    /\ zBurst' = IntOfCps(n)
    /\ zTokens' = IntOfCps(n)
    /\ zPc' = "wait"
    /\ UNCHANGED zCycles
    /\ UNCHANGED exceptRl

\* time passes and the limiter adds a token, up to its burst
ZRefill ==
    /\ zPc \in {"wait", "cycle"}
    /\ zTokens < zBurst
    /\ zTokens' = zTokens + 1
    /\ UNCHANGED <<zPc, zCps, zBurst, zCycles>>
    /\ UNCHANGED exceptRl

\* run: err := tr.rl.Wait(context.Background()); HandleError(err), which
\* ends the process on an error
ZWait ==
    /\ zPc = "wait"
    /\ zCycles < MaxRlCycles
    /\ IF WaitFails(zBurst)
       THEN /\ zPc' = "fatal"
            /\ UNCHANGED zTokens
       ELSE /\ zTokens > 0
            /\ zTokens' = zTokens - 1
            /\ zPc' = "cycle"
    /\ UNCHANGED <<zCps, zBurst, zCycles>>
    /\ UNCHANGED exceptRl

\* run: tr.cycleTargets(), and back to the top of the loop
ZCycle ==
    /\ zPc = "cycle"
    /\ zCycles' = zCycles + 1
    /\ zPc' = "wait"
    /\ UNCHANGED <<zCps, zBurst, zTokens>>
    /\ UNCHANGED exceptRl

NextRl ==
    \/ \E n \in 1..MaxCpsNum : ZCreate(n)
    \/ ZRefill
    \/ ZWait
    \/ ZCycle

SpecRl == Init /\ [][NextRl]_vars

\* C40: for every positive cps, also below 1, the limiter lets run keep
\* cycling: the rate-limit wait never returns an error, which would end the
\* process.
WaitNeverFails == zPc # "fatal"

\* with cps of 1 or more the wait never fails and the bucket holds at most
\* int(cps) tokens
WaitSucceedsFromOneCps ==
    zCps >= CpsDenom => zPc # "fatal" /\ zTokens <= zCps \div CpsDenom

====
